---- MODULE Spec2Model ----
(***************************************************************************)
(* A model of argumappr, a layered (Sugiyama style) layout engine for      *)
(* argument maps: the graph container with its conjunct/warrant            *)
(* extensions, the cycle remover, the layerer, the long edge splitter, the *)
(* coordinate assigner, the router and the top level pipeline.             *)
(*                                                                         *)
(* Node identifiers are strings in the program.  They are modelled as      *)
(* sequences of tokens: a positive token is an atomic caller chosen name,  *)
(* the non-positive tokens are the literal pieces the program glues        *)
(* names together with.                                                    *)
(***************************************************************************)
EXTENDS Integers, Sequences, FiniteSets, TLC

\* ------------------------------------------------------------------------
\* Generic helpers
\* ------------------------------------------------------------------------

Range(s) == {s[i] : i \in DOMAIN s}

InSeq(s, x) == \E i \in DOMAIN s : s[i] = x

\* Left fold of a sequence: op(...op(op(base, s[1]), s[2])..., s[n]).
FoldLeft(op(_, _), base, s) ==
  LET it[i \in 0..Len(s)] == IF i = 0 THEN base ELSE op(it[i - 1], s[i])
  IN  it[Len(s)]

RemoveFromSeq(s, x) == SelectSeq(s, LAMBDA y : y # x)

\* Array.prototype.indexOf, 1-based; 0 when absent.
IndexOf(s, x) ==
  IF InSeq(s, x) THEN CHOOSE i \in DOMAIN s : s[i] = x /\ \A j \in 1..(i - 1) : s[j] # x
  ELSE 0

\* The indices lo..hi as a list, upwards or downwards.
Indices(lo, hi, upwards) ==
  IF hi < lo THEN << >>
  ELSE [i \in 1..(hi - lo + 1) |-> IF upwards THEN lo + i - 1 ELSE hi - i + 1]

Min2(a, b) == IF a < b THEN a ELSE b
Max2(a, b) == IF a > b THEN a ELSE b

\* ------------------------------------------------------------------------
\* Node identifiers (strings of the program as token sequences)
\* ------------------------------------------------------------------------

ARROW == 0      \* the separator " -> " of a warrant sink id "u -> w"
CONJ == -1      \* the prefix "-> " of a conjunct container id "-> w"
DASH == -3      \* the separator "-" of a long edge dummy id "v-w-i"
START == -4     \* the prefix "start-" of a conjunct delimiter id
END == -5       \* the prefix "end-" of a conjunct delimiter id

Name(n) == <<n>>

\* `${v} -> ${w}`
WarrantSinkId(v, w) == v \o <<ARROW>> \o w

\* `-> ${w}`
ConjunctId(w) == <<CONJ>> \o w

\* The root of the parent relation (graphlib's GRAPH_NODE, "\x00"): a
\* token no name contains.
GRAPH_NODE == <<-2>>

\* The empty string.
EMPTY == << >>

\* ------------------------------------------------------------------------
\* Labels: attribute bags.  JavaScript's undefined label is Undefined.
\* ------------------------------------------------------------------------

Undefined == [undefined |-> TRUE]

IsUndefined(l) == "undefined" \in DOMAIN l

Has(l, f) == f \in DOMAIN l

\* Truthiness of a boolean flag read with optional chaining: label?.flag
Flag(l, f) == Has(l, f) /\ l[f] = TRUE

\* { ...a, ...b }: the fields of b win; spreading undefined adds nothing.
Spread(a, b) ==
  LET aa == IF IsUndefined(a) THEN << >> ELSE a
      bb == IF IsUndefined(b) THEN << >> ELSE b
  IN  bb @@ aa

\* The value of a field of a label; undefined when the label lacks it.
Get(l, f) == IF Has(l, f) THEN l[f] ELSE Undefined

\* ------------------------------------------------------------------------
\* JavaScript numbers that need not be finite: ranks, slacks, coordinates.
\* Counts that are always finite (minlen, postorder numbers, cut values,
\* widths) stay plain integers and enter the arithmetic through Num.
\* Coordinates are fixed point: v counts eighths, so that the halves and
\* quarters the program takes of them are exact.
\* ------------------------------------------------------------------------

Num(n) == [k |-> "num", v |-> n]
NaN == [k |-> "nan", v |-> 0]
Infinity == [k |-> "inf", v |-> 1]
NegInfinity == [k |-> "inf", v |-> -1]

\* A whole number as a coordinate.
Coord(n) == Num(8 * n)

\* ToNumber: undefined becomes NaN.
ToNumber(a) == IF IsUndefined(a) THEN NaN ELSE a

\* a + b
Plus(a0, b0) ==
  LET a == ToNumber(a0)
      b == ToNumber(b0)
  IN  IF a.k = "nan" \/ b.k = "nan" THEN NaN
      ELSE IF a.k = "inf" /\ b.k = "inf" THEN (IF a.v = b.v THEN a ELSE NaN)
      ELSE IF a.k = "inf" THEN a
      ELSE IF b.k = "inf" THEN b
      ELSE Num(a.v + b.v)

\* -a
Negate(a0) ==
  LET a == ToNumber(a0)
  IN  IF a.k = "nan" THEN NaN ELSE [a EXCEPT !.v = -@]

\* a - b
Minus(a, b) == Plus(a, Negate(b))

\* a * n for a positive integer n
Times(a0, n) ==
  LET a == ToNumber(a0)
  IN  IF a.k = "num" THEN Num(a.v * n) ELSE a

\* a / 2 and a / 4 of a coordinate
Half(a0) ==
  LET a == ToNumber(a0)
  IN  IF a.k = "num" THEN Num(a.v \div 2) ELSE a

\* a < b: false as soon as one side is NaN.
Less(a0, b0) ==
  LET a == ToNumber(a0)
      b == ToNumber(b0)
  IN  IF a.k = "nan" \/ b.k = "nan" THEN FALSE
      ELSE IF a.k = "inf" THEN a.v = -1 /\ b # a
      ELSE IF b.k = "inf" THEN b.v = 1
      ELSE a.v < b.v

\* a === b on numbers and undefined: NaN equals nothing.
StrictEq(a, b) == a = b /\ (IsUndefined(a) \/ a.k # "nan")

\* Math.min and Math.max of two numbers.
MathMin2(a0, b0) ==
  LET a == ToNumber(a0)
      b == ToNumber(b0)
  IN  IF a.k = "nan" \/ b.k = "nan" THEN NaN ELSE IF Less(b, a) THEN b ELSE a

MathMax2(a0, b0) ==
  LET a == ToNumber(a0)
      b == ToNumber(b0)
  IN  IF a.k = "nan" \/ b.k = "nan" THEN NaN ELSE IF Less(a, b) THEN b ELSE a

\* Math.min(...list) and Math.max(...list): the identities for no argument.
MathMin(s) == FoldLeft(MathMin2, Infinity, s)
MathMax(s) == FoldLeft(MathMax2, NegInfinity, s)

\* A set in some order (the order does not matter to the caller).
RECURSIVE SetToSeq(_)
SetToSeq(S) ==
  IF S = {} THEN << >>
  ELSE LET x == CHOOSE y \in S : TRUE IN <<x>> \o SetToSeq(S \ {x})

\* ------------------------------------------------------------------------
\* RankTable of src/src/utils.ts
\*   nodeToRank  : Map<NodeId, number>
\*   rankToNodes : Map<number, Set<NodeId>>, each set in insertion order
\* ------------------------------------------------------------------------

NewRankTable == [nodeToRank |-> << >>, rankToNodes |-> << >>]

getRank(t, n) == IF n \in DOMAIN t.nodeToRank THEN t.nodeToRank[n] ELSE Undefined

\* Is getNodes(rank) defined?
hasRank(t, rank) == rank \in DOMAIN t.rankToNodes

\* getNodes(rank), a set in insertion order; empty where it is undefined.
getNodes(t, rank) == IF hasRank(t, rank) THEN t.rankToNodes[rank] ELSE << >>

\* The part set and delete share: take the node out of its rank and prune
\* the rank when it is left empty.
TakeOut(t, n, oldRankIndex) ==
  LET oldRank == RemoveFromSeq(getNodes(t, oldRankIndex), n)
      kept == IF Len(oldRank) = 0 THEN DOMAIN t.rankToNodes \ {oldRankIndex}
              ELSE DOMAIN t.rankToNodes
  IN  [nodeToRank |-> [m \in DOMAIN t.nodeToRank \ {n} |-> t.nodeToRank[m]],
       rankToNodes |-> [r \in kept |-> IF r = oldRankIndex THEN oldRank
                                        ELSE t.rankToNodes[r]]]

\* RankTable.set as the earlier RankTable of utils.ts has it: the old rank is
\* left when it is falsy, nothing is pruned, and there is no early return.
RankTableSetOfOldTable(t, n, rank) ==
  LET oldRankNumber == getRank(t, n)
      truthy == ~IsUndefined(oldRankNumber) /\ oldRankNumber.k = "num" /\ oldRankNumber.v # 0
      rankToNode1 == IF truthy
                     THEN [t.rankToNodes EXCEPT ![oldRankNumber] = RemoveFromSeq(@, n)]
                     ELSE t.rankToNodes
      existed == rank \in DOMAIN rankToNode1
      entries == IF existed THEN rankToNode1[rank] ELSE << >>
      added == IF InSeq(entries, n) THEN entries ELSE Append(entries, n)
  IN  [nodeToRank |-> (n :> rank) @@ t.nodeToRank,
       rankToNodes |-> (rank :> added) @@ rankToNode1]

\* RankTable.set
RankTableSet(t, n, rank) ==
  LET oldRankIndex == getRank(t, n)
  IN  IF StrictEq(rank, oldRankIndex) THEN t
      ELSE
        LET t1 == IF IsUndefined(oldRankIndex) THEN t ELSE TakeOut(t, n, oldRankIndex)
            rankEntries == getNodes(t1, rank)
            added == IF InSeq(rankEntries, n) THEN rankEntries ELSE Append(rankEntries, n)
        IN  [nodeToRank |-> (n :> rank) @@ t1.nodeToRank,
             rankToNodes |-> (rank :> added) @@ t1.rankToNodes]

\* RankTable.delete
RankTableDelete(t, n) ==
  LET rankIndex == getRank(t, n)
  IN  IF IsUndefined(rankIndex) THEN t ELSE TakeOut(t, n, rankIndex)

getMinRankIndex(t) == MathMin(SetToSeq(DOMAIN t.rankToNodes))
getMaxRankIndex(t) == MathMax(SetToSeq(DOMAIN t.rankToNodes))

\* ------------------------------------------------------------------------
\* The graph container: graphlib's Graph as extended by src/src/graph.ts.
\*   nodes, edges : in insertion order (graphlib enumerates object keys)
\*   nl, el       : node and edge labels
\*   par, kids    : the compound parent relation; kids lists the nodes in
\*                  the order in which they were last given a parent
\*   dnl          : the default node label
\*   directed     : the directed option the graph was constructed with
\*   err          : an exception was thrown; it aborts everything after it
\* ------------------------------------------------------------------------

NewGraph(defaultNodeLabel) ==
  [nodes |-> << >>, edges |-> << >>, nl |-> << >>, el |-> << >>, label |-> Undefined,
   par |-> << >>, kids |-> << >>, dnl |-> defaultNodeLabel, directed |-> TRUE,
   err |-> FALSE]

\* isDirected asked of a graph built as new Graph({ directed: true }).
isDirectedAsBuilt(g) == TRUE

isDirected(g) == g.directed

hasNode(g, v) == v \in DOMAIN g.nl

hasEdge(g, v, w) == <<v, w>> \in DOMAIN g.el

\* graph.node(v): undefined for a node that does not exist.
node(g, v) == IF hasNode(g, v) THEN g.nl[v] ELSE Undefined

\* graph.edge(v, w)
edge(g, v, w) == IF hasEdge(g, v, w) THEN g.el[<<v, w>>] ELSE Undefined

nodeCount(g) == Len(g.nodes)
edgeCount(g) == Len(g.edges)

inEdges(g, v) == SelectSeq(g.edges, LAMBDA e : e[2] = v)
outEdges(g, v) == SelectSeq(g.edges, LAMBDA e : e[1] = v)
nodeEdges(g, v) == inEdges(g, v) \o outEdges(g, v)

SeqMap(f(_), s) == [i \in DOMAIN s |-> f(s[i])]

predecessors(g, v) == SeqMap(LAMBDA e : e[1], inEdges(g, v))
successors(g, v) == SeqMap(LAMBDA e : e[2], outEdges(g, v))

\* _.union(predecessors, successors)
neighbors(g, v) ==
  LET p == predecessors(g, v)
  IN  p \o SelectSeq(successors(g, v), LAMBDA x : ~InSeq(p, x))

sinks(g) == SelectSeq(g.nodes, LAMBDA v : Len(outEdges(g, v)) = 0)
sources(g) == SelectSeq(g.nodes, LAMBDA v : Len(inEdges(g, v)) = 0)

parent(g, v) == IF v \in DOMAIN g.par THEN g.par[v] ELSE GRAPH_NODE

children(g, v) == SelectSeq(g.kids, LAMBDA c : g.par[c] = v)

Throw(g) == [g EXCEPT !.err = TRUE]

\* graph.setNode(v) without a label: creates the node with the default label.
setNodeDefault(g, v) ==
  IF g.err \/ hasNode(g, v) THEN g
  ELSE [g EXCEPT !.nodes = Append(@, v),
                 !.nl = (v :> g.dnl) @@ @,
                 !.par = (v :> GRAPH_NODE) @@ @,
                 !.kids = Append(@, v)]

\* graph.setNode(v, label)
setNode(g, v, label) ==
  IF g.err THEN g
  ELSE IF hasNode(g, v) THEN [g EXCEPT !.nl[v] = label]
  ELSE [g EXCEPT !.nodes = Append(@, v),
                 !.nl = (v :> label) @@ @,
                 !.par = (v :> GRAPH_NODE) @@ @,
                 !.kids = Append(@, v)]

\* Is a an ancestor-or-self of p in the parent relation?
RECURSIVE IsAncestor(_, _, _)
IsAncestor(g, a, p) ==
  IF p = GRAPH_NODE THEN FALSE
  ELSE IF p = a THEN TRUE
  ELSE IsAncestor(g, a, parent(g, p))

\* graph.setParent(v, p); p = GRAPH_NODE stands for an undefined parent.
setParent(g, v, p) ==
  IF g.err THEN g
  ELSE IF p # GRAPH_NODE /\ IsAncestor(g, v, p) THEN Throw(g)
  ELSE LET g1 == IF p = GRAPH_NODE THEN g ELSE setNodeDefault(g, p)
           g2 == setNodeDefault(g1, v)
       IN  [g2 EXCEPT !.par[v] = p,
                      !.kids = Append(RemoveFromSeq(@, v), v)]

\* graph.setEdge(v, w, label): creates missing endpoints with the default
\* label; an existing edge keeps its place in the enumeration order.
setEdge(g, v, w, label) ==
  IF g.err THEN g
  ELSE IF hasEdge(g, v, w) THEN [g EXCEPT !.el[<<v, w>>] = label]
  ELSE LET g1 == setNodeDefault(setNodeDefault(g, v), w)
       IN  [g1 EXCEPT !.edges = Append(@, <<v, w>>),
                      !.el = (<<v, w>> :> label) @@ @]

\* graphlib's own removeEdge (super.removeEdge).
superRemoveEdge(g, v, w) ==
  IF g.err \/ ~hasEdge(g, v, w) THEN g
  ELSE [g EXCEPT !.edges = RemoveFromSeq(@, <<v, w>>),
                 !.el = [e \in DOMAIN @ \ {<<v, w>>} |-> @[e]]]

RECURSIVE removeEdge(_, _, _)
RECURSIVE removeNode(_, _)

\* Graph.removeEdge without the look for the node "v -> w", as the earlier
\* Graph had it.
removeEdgeOfEarlierGraph(g, v, w) ==
  IF g.err THEN g
  ELSE superRemoveEdge(
         IF Flag(node(g, v), "isConjunctNode") THEN removeNode(g, v)
         ELSE IF Flag(node(g, w), "isWarrantSink") THEN removeNode(g, w)
         ELSE g,
         v, w)

\* Graph.removeEdge of src/src/graph.ts.
removeEdge(g, v, w) ==
  IF g.err THEN g
  ELSE
    LET possibleWarrantSink == WarrantSinkId(v, w)
        \* this.node(warrantSource).isWarrantSource = false, in the graph g3
        \* that has lost the warrant sink
        UnmarkWarrantSource(preds, g3) ==
          IF g3.err THEN g3
          ELSE IF Len(preds) = 0 THEN Throw(g3)
          ELSE IF IsUndefined(node(g3, preds[1])) THEN Throw(g3)
          ELSE [g3 EXCEPT !.nl[preds[1]] = ("isWarrantSource" :> FALSE) @@ @]
        \* if (this.hasNode(possibleWarrantSink)) { ... }, in the graph g1
        \* left by the first if statement
        RemoveWarrantSink(g1) ==
          IF g1.err \/ ~hasNode(g1, possibleWarrantSink) THEN g1
          ELSE UnmarkWarrantSource(predecessors(g1, possibleWarrantSink),
                                   removeNode(g1, possibleWarrantSink))
    IN  superRemoveEdge(
          RemoveWarrantSink(
            IF Flag(node(g, v), "isConjunctNode") THEN removeNode(g, v)
            ELSE IF Flag(node(g, w), "isWarrantSink") THEN removeNode(g, w)
            ELSE g),
          v, w)

\* One step of graphlib's removeNode loop over a snapshot of edge keys: the
\* edge object of a key that is gone is undefined, and removeEdge(undefined)
\* throws.
RemoveKeyedEdge(g, e) ==
  IF g.err THEN g
  ELSE IF ~hasEdge(g, e[1], e[2]) THEN Throw(g)
  ELSE removeEdge(g, e[1], e[2])

\* graphlib's removeNode; it removes the incident edges through the
\* overridden removeEdge.
removeNode(g, v) ==
  IF g.err \/ ~hasNode(g, v) THEN g
  ELSE
    LET orphans == children(g, v)
        g1 == [g EXCEPT !.nodes = RemoveFromSeq(@, v),
                        !.nl = [n \in DOMAIN @ \ {v} |-> @[n]],
                        !.par = [n \in DOMAIN @ \ {v} |->
                                   IF @[n] = v THEN GRAPH_NODE ELSE @[n]],
                        !.kids = SelectSeq(@, LAMBDA c : c # v /\ ~InSeq(orphans, c))
                                   \o orphans]
        g2 == FoldLeft(RemoveKeyedEdge, g1, inEdges(g1, v))
    IN  IF g2.err THEN g2
        ELSE FoldLeft(RemoveKeyedEdge, g2, outEdges(g2, v))

\* setConjunctNode that leaves the edge v -> w beside the new one.
setConjunctNodeKeepingEdge(g, n, v, w) ==
  LET vParentNode == parent(g, v)
  IN  IF vParentNode # GRAPH_NODE THEN setParent(g, n, vParentNode)
      ELSE
        LET c == ConjunctId(w)
            g1 == setNode(g, c, [isConjunctNode |-> TRUE])
            g2 == setParent(g1, v, c)
            edgeLabel == IF IsUndefined(edge(g2, v, w)) THEN << >> ELSE edge(g2, v, w)
            g3 == setEdge(g2, c, w, edgeLabel)
        IN  setParent(g3, n, c)

\* Graph.setConjunctNode(node, edge) of src/src/graph.ts.
setConjunctNode(g, n, v, w) ==
  LET vParentNode == parent(g, v)
  IN  IF vParentNode # GRAPH_NODE THEN setParent(g, n, vParentNode)
      ELSE
        LET c == ConjunctId(w)
            g1 == setNode(g, c, [isConjunctNode |-> TRUE])
            g2 == setParent(g1, v, c)
            edgeLabel == IF IsUndefined(edge(g2, v, w)) THEN << >> ELSE edge(g2, v, w)
            g3 == setEdge(g2, c, w, edgeLabel)
            g4 == removeEdge(g3, v, w)
        IN  setParent(g4, n, c)

\* Graph.setWarrantEdge(sourceNode, targetEdge, label) of src/src/graph.ts;
\* label = Undefined stands for a call without a label.
setWarrantEdge(g, sourceNode, v, w, label) ==
  LET dummyNodeId == WarrantSinkId(v, w)
  IN  IF g.err THEN g
      ELSE IF hasEdge(g, sourceNode, dummyNodeId) THEN
        IF IsUndefined(label) THEN g
        ELSE IF IsUndefined(edge(g, sourceNode, dummyNodeId)) THEN Throw(g)
        ELSE [g EXCEPT !.el[<<sourceNode, dummyNodeId>>] = ("label" :> label) @@ @]
      ELSE
        LET g1 == setNode(g, dummyNodeId,
                          [isWarrantSink |-> TRUE, width |-> 0, height |-> 0])
        IN  setEdge(g1, sourceNode, dummyNodeId, label)

\* ------------------------------------------------------------------------
\* src/src/utils.ts
\* ------------------------------------------------------------------------

NODE_Y_SPACING == 325
NODE_WIDTH == 300

GRAPH_DEFAULTS == [ranksep |-> 50, edgesep |-> 20, nodesep |-> 50, rankdir |-> "tb"]
NODE_DEFAULTS == [width |-> 0, height |-> 0]
EDGE_DEFAULTS ==
  [minlen |-> 1, weight |-> 1, width |-> 0, height |-> 0,
   labeloffset |-> 10, labelpos |-> "r"]

\* buildSimpleGraph: the node ids and the edges, nothing else.
buildSimpleGraph(graph) ==
  LET g0 == NewGraph(<< >>)
      g1 == FoldLeft(LAMBDA acc, n : setNodeDefault(acc, n), g0, graph.nodes)
  IN  FoldLeft(LAMBDA acc, e : IF hasEdge(acc, e[1], e[2]) THEN acc
                               ELSE setEdge(acc, e[1], e[2], Undefined),
               g1, graph.edges)

\* buildLayoutGraph: a copy of the caller's graph with the defaults merged
\* into every label.
buildLayoutGraph(inputGraph) ==
  LET g0 == [NewGraph(Undefined) EXCEPT !.label = Spread(GRAPH_DEFAULTS, inputGraph.label)]
      addNode(acc, n) ==
        setParent(setNode(acc, n, Spread(NODE_DEFAULTS, node(inputGraph, n))),
                  n, parent(inputGraph, n))
      g1 == FoldLeft(addNode, g0, inputGraph.nodes)
  IN  FoldLeft(LAMBDA acc, e :
                 setEdge(acc, e[1], e[2], Spread(EDGE_DEFAULTS, edge(inputGraph, e[1], e[2]))),
               g1, inputGraph.edges)

\* ------------------------------------------------------------------------
\* src/src/layer-nodes.ts
\* ------------------------------------------------------------------------

\* graph.nodes().filter((node) => graph.node(node).<flag>)
FilterNodes(g, flag) == SelectSeq(g.nodes, LAMBDA n : Flag(node(g, n), flag))

\* The filter reads a field of every node label: it throws on an undefined one.
SomeLabelUndefined(g) == \E n \in Range(g.nodes) : IsUndefined(node(g, n))

\* A numeric field of a label that is always finite when present.
NumField(l, f) == IF Has(l, f) THEN Num(l[f]) ELSE Undefined

RemoveAt(s, i) == SubSeq(s, 1, i - 1) \o SubSeq(s, i + 1, Len(s))

\* mergeConjunctNodes, the body of inEdges.forEach
MergeInEdge(conj, acc, e) ==
  LET edgeLabel == edge(acc.g, e[1], e[2])
  IN  [acc EXCEPT !.g = setEdge(acc.g, e[1], conj, edgeLabel),
                  !.originalEdges = Append(@, [v |-> e[1], w |-> e[2], label |-> edgeLabel])]

\* mergeConjunctNodes, the body of outEdges.forEach
MergeOutEdge(conj, acc, e) ==
  LET edgeLabel == edge(acc.g, e[1], e[2])
  IN  [acc EXCEPT !.g = setEdge(acc.g, conj, e[2], edgeLabel),
                  !.originalEdges = Append(@, [v |-> e[1], w |-> e[2], label |-> edgeLabel])]

\* mergeConjunctNodes, the body of subnodes.forEach
MergeSubnode(conj, acc, subnode) ==
  LET ins == inEdges(acc.g, subnode)
      outs == outEdges(acc.g, subnode)
      a1 == FoldLeft(LAMBDA a, e : MergeInEdge(conj, a, e), acc, ins)
      Remove(a2) ==
        [g |-> removeNode(a2.g, subnode),
         originalEdges |-> a2.originalEdges,
         subnodeData |-> Append(a2.subnodeData,
                                [id |-> subnode, data |-> node(a2.g, subnode)])]
  IN  Remove(FoldLeft(LAMBDA a, e : MergeOutEdge(conj, a, e), a1, outs))

\* mergeConjunctNodes, the body of conjunctNodes.forEach: graph.children of
\* a node that is gone is undefined, and so is its label.
MergeConjunctNode(g, conj) ==
  IF g.err THEN g
  ELSE IF ~hasNode(g, conj) THEN Throw(g)
  ELSE
    LET \* graph.node(conjunctNode).subnodeData = ..., .originalEdges = ...
        Record(merged) ==
          IF merged.g.err THEN merged.g
          ELSE IF IsUndefined(node(merged.g, conj)) THEN Throw(merged.g)
          ELSE [merged.g EXCEPT !.nl[conj] =
                  ("subnodeData" :> merged.subnodeData)
                    @@ ("originalEdges" :> merged.originalEdges) @@ @]
    IN  Record(FoldLeft(LAMBDA acc, subnode : MergeSubnode(conj, acc, subnode),
                        [g |-> g, originalEdges |-> << >>, subnodeData |-> << >>],
                        children(g, conj)))

\* mergeConjunctNodes: the graph with every conjunct node merged; the list it
\* returns is FilterNodes(graph, "isConjunctNode").
mergeConjunctNodes(g) ==
  IF SomeLabelUndefined(g) THEN Throw(g)
  ELSE FoldLeft(MergeConjunctNode, g, FilterNodes(g, "isConjunctNode"))

\* mergeRelevanceStructures: the list of the sinks it merges.  No node of a
\* graph built with the Graph API carries isRelevanceSink, so that the
\* loop over the sinks has no iteration and the list returned is empty.
relevanceSinks(g) == FilterNodes(g, "isRelevanceSink")

\* The loop over the in-edges keeping the smaller of rank + minlen.
ParentScanKeepingSmaller(g, t, ins) ==
  LET step(acc, e) ==
        IF acc.done \/ acc.err THEN acc
        ELSE
          LET parentRank == getRank(t, e[1])
              label == edge(g, e[1], e[2])
              edgeMinLength == NumField(label, "minlen")
          IN  IF IsUndefined(label) THEN [acc EXCEPT !.err = TRUE]
              ELSE IF IsUndefined(parentRank)
                THEN [acc EXCEPT !.maxParentRank = NegInfinity, !.done = TRUE]
              ELSE IF \/ acc.maxParentRank = NegInfinity
                      \/ Less(Plus(parentRank, edgeMinLength),
                              Plus(acc.maxParentRank, acc.edgeLength))
                THEN [acc EXCEPT !.maxParentRank = parentRank,
                                 !.edgeLength = edgeMinLength]
              ELSE acc
  IN  FoldLeft(step, [maxParentRank |-> NegInfinity, edgeLength |-> NegInfinity,
                      done |-> FALSE, err |-> FALSE], ins)

\* setRanks, the loop over the in-edges of a node, with its break.
ParentScan(g, t, ins) ==
  LET step(acc, e) ==
        IF acc.done \/ acc.err THEN acc
        ELSE
          LET parentRank == getRank(t, e[1])
              label == edge(g, e[1], e[2])
              edgeMinLength == NumField(label, "minlen")
          IN  IF IsUndefined(label) THEN [acc EXCEPT !.err = TRUE]
              ELSE IF IsUndefined(parentRank)
                THEN [acc EXCEPT !.maxParentRank = NegInfinity, !.done = TRUE]
              ELSE IF Less(Plus(acc.maxParentRank, acc.edgeLength),
                           Plus(parentRank, edgeMinLength))
                THEN [acc EXCEPT !.maxParentRank = parentRank,
                                 !.edgeLength = edgeMinLength]
              ELSE acc
  IN  FoldLeft(step, [maxParentRank |-> NegInfinity, edgeLength |-> NegInfinity,
                      done |-> FALSE, err |-> FALSE], ins)

\* setRanks, one run of the for loop over the nodes that are still to rank,
\* from nodeIndex on; a ranked node is spliced out of the list.
RECURSIVE SetRanksFrom(_, _, _, _)
SetRanksFrom(g, nodes, t, nodeIndex) ==
  IF nodeIndex > Len(nodes) THEN [nodes |-> nodes, ranks |-> t, err |-> FALSE]
  ELSE
    LET n == nodes[nodeIndex]
        ins == inEdges(g, n)
        scan == ParentScan(g, t, ins)
    IN  IF Len(ins) = 0
          THEN SetRanksFrom(g, RemoveAt(nodes, nodeIndex), RankTableSet(t, n, Num(0)),
                            nodeIndex)
        ELSE IF scan.err THEN [nodes |-> nodes, ranks |-> t, err |-> TRUE]
        ELSE IF scan.maxParentRank # NegInfinity
          THEN SetRanksFrom(g, RemoveAt(nodes, nodeIndex),
                            RankTableSet(t, n, Plus(scan.maxParentRank, scan.edgeLength)),
                            nodeIndex)
        ELSE SetRanksFrom(g, nodes, t, nodeIndex + 1)

\* getTightTree, the loop over the edges; the list grows while it is walked.
RECURSIVE GrowTightTree(_, _, _, _, _)
GrowTightTree(g, t, tightTree, edges, i) ==
  IF i > Len(edges) \/ tightTree.err THEN tightTree
  ELSE
    LET v == edges[i][1]
        w == edges[i][2]
        label == edge(g, v, w)
        edgeIsTight == StrictEq(NumField(label, "minlen"),
                                Minus(getRank(t, w), getRank(t, v)))
        newNode == IF hasNode(tightTree, v) THEN w ELSE v
    IN  IF hasNode(tightTree, v) /\ hasNode(tightTree, w)
          THEN GrowTightTree(g, t, tightTree, edges, i + 1)
        ELSE IF IsUndefined(label) THEN Throw(tightTree)
        ELSE IF edgeIsTight
          THEN GrowTightTree(g, t,
                             setEdge(setNode(tightTree, newNode, node(g, newNode)),
                                     v, w, label),
                             edges \o nodeEdges(g, newNode), i + 1)
        ELSE GrowTightTree(g, t, tightTree, edges, i + 1)

\* getTightTree
getTightTree(g, t) ==
  IF nodeCount(g) = 0 THEN NewGraph(Undefined)
  ELSE LET first == g.nodes[1]
       IN  GrowTightTree(g, t, setNode(NewGraph(Undefined), first, node(g, first)),
                         nodeEdges(g, first), 1)

\* getMinSlack: Infinity and the edge { v: "", w: "" } when no edge joins the
\* tree to the rest.
getMinSlack(g, tree, t) ==
  LET step(acc, e) ==
        LET label == edge(g, e[1], e[2])
            rankDistance == Minus(getRank(t, e[2]), getRank(t, e[1]))
            slack == Minus(rankDistance, NumField(label, "minlen"))
        IN  IF acc.err \/ hasNode(tree, e[1]) = hasNode(tree, e[2]) THEN acc
            ELSE IF IsUndefined(label) THEN [acc EXCEPT !.err = TRUE]
            ELSE IF Less(slack, acc.minSlack)
              THEN [acc EXCEPT !.minSlack = slack, !.minSlackEdge = e]
            ELSE acc
  IN  FoldLeft(step, [minSlack |-> Infinity, minSlackEdge |-> <<EMPTY, EMPTY>>,
                      err |-> FALSE], g.edges)

\* getFeasibleTree, the body of the while loop.
GrowFeasibleTree(g, tree, t) ==
  LET \* what follows const { minSlack, minSlackEdge } = getMinSlack(...)
      Grow(found, v, w) ==
        LET rankDelta == IF hasNode(tree, v) THEN found.minSlack
                         ELSE Negate(found.minSlack)
            newNode == IF hasNode(tree, v) THEN w ELSE v
            shift(acc, n) == IF n = newNode THEN acc
                             ELSE RankTableSet(acc, n, Plus(getRank(acc, n), rankDelta))
        IN  [tree |-> setEdge(setNode(tree, newNode, node(g, newNode)),
                              v, w, edge(g, v, w)),
             ranks |-> FoldLeft(shift, t, g.nodes),
             err |-> found.err]
      GrowBy(found) == Grow(found, found.minSlackEdge[1], found.minSlackEdge[2])
  IN  GrowBy(getMinSlack(g, tree, t))

\* The tree is given the label objects of the graph (tree.setNode(n,
\* graph.node(n)), tree.setEdge(e, graph.edge(e))): what is written to a
\* label through the tree is written to the label of the graph.  gt is the
\* pair of the graph and the tree.
WriteNode(gt, n, f, value) ==
  [graph |-> IF hasNode(gt.graph, n)
               THEN [gt.graph EXCEPT !.nl[n] = (f :> value) @@ @] ELSE gt.graph,
   tree |-> [gt.tree EXCEPT !.nl[n] = (f :> value) @@ @]]

WriteEdge(gt, e, f, value) ==
  [graph |-> IF hasEdge(gt.graph, e[1], e[2])
               THEN [gt.graph EXCEPT !.el[e] = (f :> value) @@ @] ELSE gt.graph,
   tree |-> [gt.tree EXCEPT !.el[e] = (f :> value) @@ @]]

\* postorderNumber: the labels written and the number it returns.
RECURSIVE postorderNumber(_, _, _, _)
postorderNumber(gt, n, nodeStack, number) ==
  LET stack == Append(nodeStack, n)
      visit(acc, neighbor) ==
        IF acc.err \/ InSeq(stack, neighbor) THEN acc
        ELSE postorderNumber(acc.gt, neighbor, stack, acc.next)
      after == FoldLeft(visit, [gt |-> gt, next |-> number, err |-> FALSE],
                        neighbors(gt.tree, n))
  IN  IF after.err THEN after
      ELSE IF IsUndefined(node(after.gt.tree, n)) THEN [after EXCEPT !.err = TRUE]
      ELSE [gt |-> WriteNode(WriteNode(after.gt, n, "number", after.next),
                             n, "minSubtreeNumber", after.next),
            next |-> after.next + 1,
            err |-> FALSE]

\* tree.edge(edge)?.cutValue !== undefined
HasCutValue(tree, e) == Has(edge(tree, e[1], e[2]), "cutValue")

\* tree.edge(edge).cutValue where it is defined
CutValueOf(tree, e) == edge(tree, e[1], e[2]).cutValue

\* postorderSetCutValues, the sum over graph.nodeEdges(node) of an inner node.
InnerCutValue(gt, n, parentEdge) ==
  LET parentIsTail == n = parentEdge[2]
      add(cutValue, e) ==
        LET edgeCutValue == CutValueOf(gt.tree, e)
        IN  IF HasCutValue(gt.tree, e) /\ edgeCutValue # 0
              THEN cutValue + edgeCutValue - 1
            ELSE IF (n = e[2]) = parentIsTail THEN cutValue + 1
            ELSE cutValue - 1
  IN  FoldLeft(add, 0, nodeEdges(gt.graph, n))

\* postorderSetCutValues
RECURSIVE postorderSetCutValues(_, _, _)
postorderSetCutValues(gt, n, nodeStack) ==
  LET stack == Append(nodeStack, n)
      label == node(gt.tree, n)
      isLeafNode == IF Has(label, "number") /\ Has(label, "minSubtreeNumber")
                      THEN label.number = label.minSubtreeNumber
                    ELSE ~Has(label, "number") /\ ~Has(label, "minSubtreeNumber")
      treeEdges == nodeEdges(gt.tree, n)
      done(x) == [gt |-> x, err |-> FALSE]
  IN  IF IsUndefined(label) THEN [gt |-> gt, err |-> TRUE]
      ELSE IF Len(treeEdges) = 0 THEN done(gt)
      ELSE IF isLeafNode THEN
        LET parentEdge == treeEdges[1]
            parentIsTail == n = parentEdge[2]
            ins == Len(predecessors(gt.graph, n))
            outs == Len(successors(gt.graph, n))
            cutValue == IF parentIsTail THEN ins - outs ELSE outs - ins
        IN  IF IsUndefined(edge(gt.tree, parentEdge[1], parentEdge[2]))
              THEN [gt |-> gt, err |-> TRUE]
            ELSE done(WriteEdge(gt, parentEdge, "cutValue", cutValue))
      ELSE
        LET visit(acc, neighbor) ==
              IF acc.err \/ InSeq(stack, neighbor) THEN acc
              ELSE postorderSetCutValues(acc.gt, neighbor, stack)
            after == FoldLeft(visit, done(gt), neighbors(gt.tree, n))
            unset == SelectSeq(treeEdges,
                               LAMBDA e : ~HasCutValue(after.gt.tree, e))
        IN  IF after.err \/ Len(unset) = 0 THEN after
            ELSE IF ~hasNode(after.gt.graph, n) THEN [after EXCEPT !.err = TRUE]
            ELSE IF IsUndefined(edge(after.gt.tree, unset[1][1], unset[1][2]))
              THEN [after EXCEPT !.err = TRUE]
            ELSE done(WriteEdge(after.gt, unset[1], "cutValue",
                                InnerCutValue(after.gt, n, unset[1])))

\* setCutValues
setCutValues(g, tree) ==
  LET rootNode == g.nodes[1]
      numbered == postorderNumber([graph |-> g, tree |-> tree], rootNode, << >>, 1)
  IN  IF numbered.err THEN [gt |-> numbered.gt, err |-> TRUE]
      ELSE postorderSetCutValues(numbered.gt, rootNode, << >>)

\* NegativeCutValueEdgeIterator.checkEdge: "true", "false", or "throws" on
\* an edge whose label is undefined.  index counts from 0; lastEdge is the
\* list of the edge next() returned last, empty until it has returned one.
checkEdge(tree, index, lastEdge) ==
  IF index = edgeCount(tree) THEN "false"
  ELSE LET e == tree.edges[index + 1]
       IN  IF lastEdge = <<e>> THEN "false"
           ELSE IF IsUndefined(edge(tree, e[1], e[2])) THEN "throws"
           ELSE IF HasCutValue(tree, e) /\ CutValueOf(tree, e) < 0
             THEN "true"
           ELSE "false"

\* NegativeCutValueEdgeIterator.hasNext, the while loop from index on.
RECURSIVE SearchNegativeCutValue(_, _, _, _)
SearchNegativeCutValue(tree, index, startIndex, lastEdge) ==
  LET checked == checkEdge(tree, index, lastEdge)
      nextIndex == (index + 1) % edgeCount(tree)
  IN  IF checked = "throws" THEN [hasNext |-> FALSE, index |-> index, err |-> TRUE]
      ELSE IF checked = "true" THEN [hasNext |-> TRUE, index |-> index, err |-> FALSE]
      ELSE IF nextIndex = startIndex
        THEN [hasNext |-> FALSE, index |-> nextIndex, err |-> FALSE]
      ELSE SearchNegativeCutValue(tree, nextIndex, startIndex, lastEdge)

\* NegativeCutValueEdgeIterator.hasNext
hasNext(tree, index, lastEdge) ==
  IF edgeCount(tree) = 0 THEN [hasNext |-> FALSE, index |-> index, err |-> FALSE]
  ELSE SearchNegativeCutValue(tree, index, index, lastEdge)

\* loopCount < graph.graph().maxrankingloops (and maxcrossingloops): a
\* comparison with undefined is false.
BelowLoopLimit(g, loopCount, limit) ==
  Has(g.label, limit) /\ loopCount < g.label[limit]

\* Math.abs
MathAbs(a0) ==
  LET a == ToNumber(a0)
  IN  IF a.k = "nan" THEN NaN
      ELSE IF a.k = "inf" THEN Infinity
      ELSE Num(IF a.v < 0 THEN -a.v ELSE a.v)

\* getNontreeMinSlackEdge, checkNodeInTailComponent
checkNodeInTailComponent(tree, cutEdge, n) ==
  LET vLabel == node(tree, cutEdge[1])
      wLabel == node(tree, cutEdge[2])
      rootNodeIsInHeadComponent == vLabel.number < wLabel.number
      nodeNumber == node(tree, n).number
  IN  IF rootNodeIsInHeadComponent
        THEN vLabel.minSubtreeNumber <= nodeNumber /\ nodeNumber <= vLabel.number
      ELSE wLabel.minSubtreeNumber <= nodeNumber /\ nodeNumber <= wLabel.number

\* getNontreeMinSlackEdge: the list of the edge it returns, empty for null.
getNontreeMinSlackEdge(g, tree, t, cutEdge) ==
  LET step(acc, e) ==
        LET edgeSlack == MathAbs(Minus(getRank(t, e[1]), getRank(t, e[2])))
            vIsInHeadComponent == ~checkNodeInTailComponent(tree, cutEdge, e[1])
            wIsInTailComponent == checkNodeInTailComponent(tree, cutEdge, e[2])
        IN  IF hasEdge(tree, e[1], e[2]) THEN acc
            ELSE IF vIsInHeadComponent /\ wIsInTailComponent /\ Less(edgeSlack, acc.minSlack)
              THEN [minSlack |-> edgeSlack, minSlackEdge |-> <<e>>]
            ELSE acc
  IN  FoldLeft(step, [minSlack |-> Infinity, minSlackEdge |-> << >>], g.edges).minSlackEdge

\* setRanks, its while loop over the nodes it was given: it throws (err), or
\* never ends (hang) once a run of the for loop ranks no node.
RECURSIVE setRanks(_, _, _)
setRanks(g, nodes, t) ==
  IF Len(nodes) = 0 THEN [ranks |-> t, err |-> FALSE, hang |-> FALSE]
  ELSE LET pass == SetRanksFrom(g, nodes, t, 1)
       IN  IF pass.err THEN [ranks |-> pass.ranks, err |-> TRUE, hang |-> FALSE]
           ELSE IF pass.nodes = nodes THEN [ranks |-> pass.ranks, err |-> FALSE, hang |-> TRUE]
           ELSE setRanks(g, pass.nodes, pass.ranks)

\* getClosestCommonAncestor, the for loop from the place i of the list nodes,
\* which grows while it is walked: the list of the node returned, empty for
\* undefined.
RECURSIVE ClosestFrom(_, _, _, _, _)
ClosestFrom(tree, nodes, i, lowestNumber, highestNumber) ==
  IF i > Len(nodes) THEN << >>
  ELSE LET n == nodes[i]
           label == node(tree, n)
       IN  IF label.minSubtreeNumber <= highestNumber /\ lowestNumber <= label.number
             THEN <<n>>
           ELSE ClosestFrom(tree,
                            nodes \o SelectSeq(neighbors(tree, n), LAMBDA x : ~InSeq(nodes, x)),
                            i + 1, lowestNumber, highestNumber)

\* getClosestCommonAncestor
getClosestCommonAncestor(tree, node0, node1) ==
  ClosestFrom(tree, neighbors(tree, node0), 1,
              Min2(node(tree, node0).number, node(tree, node1).number),
              Max2(node(tree, node0).number, node(tree, node1).number))

\* updateRanks, the for loop over subtreeNodes, which grows while it is
\* walked.
RECURSIVE SubtreeNodesFrom(_, _, _)
SubtreeNodesFrom(tree, subtreeNodes, i) ==
  IF i > Len(subtreeNodes) THEN subtreeNodes
  ELSE LET n == subtreeNodes[i]
       IN  SubtreeNodesFrom(tree,
                            subtreeNodes \o
                              SelectSeq(neighbors(tree, n),
                                        LAMBDA x : node(tree, x).number < node(tree, n).number),
                            i + 1)

\* updateRanks.  setRanks splices every node it ranks out of the list it is
\* given, which is subtreeNodes itself: when it returns the list is empty,
\* and the forEach that is to copy the new ranks walks nothing.
updateRanks(tree, t, subtreeRoot) ==
  LET subtreeNodes ==
        SubtreeNodesFrom(tree,
                         SelectSeq(neighbors(tree, subtreeRoot),
                                   LAMBDA x : node(tree, x).number
                                                < node(tree, subtreeRoot).number),
                         1)
      newRanks == setRanks(tree, subtreeNodes, NewRankTable)
  IN  [ranks |-> t, err |-> newRanks.err, hang |-> newRanks.hang]

\* updateTreeValues; the tree holds newTreeEdge.
updateTreeValues(g, tree, t, newTreeEdge) ==
  LET rootNode == g.nodes[1]
      gt == [graph |-> g, tree |-> tree]
      \* what follows the test of the root
      WholeRanked(cut, set) ==
        [gt |-> cut.gt, ranks |-> set.ranks, err |-> set.err, hang |-> set.hang]
      WholeCut(cut) ==
        IF cut.err THEN [gt |-> cut.gt, ranks |-> t, err |-> TRUE, hang |-> FALSE]
        ELSE WholeRanked(cut, setRanks(cut.gt.tree, cut.gt.tree.nodes, NewRankTable))
      PartCut(updated, cut) ==
        [gt |-> cut.gt, ranks |-> updated.ranks, err |-> cut.err, hang |-> FALSE]
      PartNumbered(updated, ancestor, nodeStack, numbered) ==
        IF numbered.err
          THEN [gt |-> numbered.gt, ranks |-> t, err |-> TRUE, hang |-> FALSE]
        ELSE PartCut(updated, postorderSetCutValues(numbered.gt, ancestor, nodeStack))
      PartStack(updated, ancestor, ancestorLabel, nodeStack) ==
        PartNumbered(updated, ancestor, nodeStack,
                     postorderNumber(gt, ancestor, nodeStack,
                                     ancestorLabel.minSubtreeNumber))
      PartUpdated(updated, ancestor, ancestorLabel) ==
        IF updated.err \/ updated.hang
          THEN [gt |-> gt, ranks |-> t, err |-> updated.err, hang |-> updated.hang]
        ELSE PartStack(updated, ancestor, ancestorLabel,
                       SelectSeq(neighbors(tree, ancestor),
                                 LAMBDA x : ancestorLabel.number < node(tree, x).number))
      Ancestor(commonAncestor) ==
        IF Len(commonAncestor) = 0
          THEN [gt |-> gt, ranks |-> t, err |-> TRUE, hang |-> FALSE]
        ELSE IF commonAncestor[1] = rootNode THEN WholeCut(setCutValues(g, tree))
        ELSE PartUpdated(updateRanks(tree, t, commonAncestor[1]), commonAncestor[1],
                         node(tree, commonAncestor[1]))
  IN  Ancestor(getClosestCommonAncestor(tree, newTreeEdge[1], newTreeEdge[2]))

\* normalizeRanks
normalizeRanks(g, t) ==
  LET smallestRank == getMinRankIndex(t)
      lower(acc, n) == RankTableSet(acc, n, Minus(getRank(acc, n), smallestRank))
  IN  IF StrictEq(smallestRank, Num(0)) THEN t ELSE FoldLeft(lower, t, g.nodes)

\* balanceLayering, the search for the least populated viable rank.  The
\* loop has no iteration unless its first rank is finite; it reads the size
\* of a rank without nodes (and throws) at the latest when its last rank is
\* Infinity.
RECURSIVE LeastPopulatedRank(_, _, _, _, _)
LeastPopulatedRank(t, rankIndex, lastViableRank, minRank, minRankSize) ==
  IF rankIndex > lastViableRank THEN [minRank |-> minRank, err |-> FALSE]
  ELSE IF ~hasRank(t, Num(rankIndex)) THEN [minRank |-> minRank, err |-> TRUE]
  ELSE LET rankSize == Len(getNodes(t, Num(rankIndex)))
       IN  IF rankSize < minRankSize
             THEN LeastPopulatedRank(t, rankIndex + 1, lastViableRank,
                                     Num(rankIndex), rankSize)
           ELSE LeastPopulatedRank(t, rankIndex + 1, lastViableRank, minRank, minRankSize)

\* balanceLayering, the body of the loop over the nodes.
BalanceNode(acc, n) ==
  LET g == acc.g
      t == acc.ranks
      parentRanks == SeqMap(LAMBDA p : getRank(t, p), predecessors(g, n))
      childRanks == SeqMap(LAMBDA c : getRank(t, c), successors(g, n))
      maxParentRank == MathMax(parentRanks)
      minChildRank == MathMin(childRanks)
      nodeCanBeMoved == Less(Num(2), Minus(minChildRank, maxParentRank))
      firstViableRank == IF Len(parentRanks) > 0 THEN Plus(maxParentRank, Num(1)) ELSE Num(0)
      lastViableRank == IF Len(childRanks) > 0 THEN Minus(minChildRank, Num(1))
                        ELSE getMaxRankIndex(t)
      minRank == getRank(t, n)
      \* the for loop from firstViableRank to lastViableRank
      Least(first, last) ==
        IF first.k = "num" /\ last.k = "num"
          THEN LeastPopulatedRank(t, first.v, last.v, minRank, Len(getNodes(t, minRank)))
        ELSE [minRank |-> minRank, err |-> first.k = "num" /\ last = Infinity]
      \* ranks.set(node, minRank)
      Move(least) ==
        IF ~hasRank(t, minRank) \/ least.err THEN [acc EXCEPT !.err = TRUE]
        ELSE [acc EXCEPT !.ranks = RankTableSet(t, n, least.minRank)]
  IN  IF acc.err \/ Len(inEdges(g, n)) # Len(outEdges(g, n)) \/ ~nodeCanBeMoved THEN acc
      ELSE Move(Least(firstViableRank, lastViableRank))

\* balanceLayering
balanceLayering(g, t) ==
  FoldLeft(BalanceNode, [g |-> g, ranks |-> t, err |-> FALSE], g.nodes)

\* splitConjunctNodes, the body of its loop without ranks.set(subnode, ...):
\* the restored subnodes are left without a rank.
SplitConjunctNodeUnranked(acc, conj) ==
  LET label == node(acc.g, conj)
      restoreSubnode(a, sub) ==
        [a EXCEPT !.g = setParent(setNode(a.g, sub.id, sub.data), sub.id, conj)]
      restoreEdge(a, e) == [a EXCEPT !.g = setEdge(a.g, e.v, e.w, e.label)]
      conjunctTarget == Tail(conj)
      dropEdge(a, e) ==
        IF e[2] = conjunctTarget THEN a ELSE [a EXCEPT !.g = removeEdge(a.g, e[1], e[2])]
  IN  IF acc.err \/ acc.g.err THEN acc
      ELSE IF IsUndefined(label) \/ ~Has(label, "subnodeData") \/ ~Has(label, "originalEdges")
        THEN [acc EXCEPT !.err = TRUE]
      ELSE
        LET a1 == FoldLeft(restoreSubnode, acc, label.subnodeData)
            DropEdges(a2) == FoldLeft(dropEdge, a2, nodeEdges(a2.g, conj))
        IN  DropEdges(FoldLeft(restoreEdge, a1, label.originalEdges))

\* splitConjunctNodes, the body of the loop over the conjunct nodes.
\* node.substring(3) drops the prefix "-> " of the container's id.
SplitConjunctNode(acc, conj) ==
  LET label == node(acc.g, conj)
      restoreSubnode(a, sub) ==
        [a EXCEPT !.g = setParent(setNode(a.g, sub.id, sub.data), sub.id, conj),
                  !.ranks = RankTableSet(a.ranks, sub.id, getRank(a.ranks, conj))]
      restoreEdge(a, e) == [a EXCEPT !.g = setEdge(a.g, e.v, e.w, e.label)]
      conjunctTarget == Tail(conj)
      dropEdge(a, e) ==
        IF e[2] = conjunctTarget THEN a ELSE [a EXCEPT !.g = removeEdge(a.g, e[1], e[2])]
  IN  IF acc.err \/ acc.g.err THEN acc
      ELSE IF IsUndefined(label) \/ ~Has(label, "subnodeData") \/ ~Has(label, "originalEdges")
        THEN [acc EXCEPT !.err = TRUE]
      ELSE
        LET a1 == FoldLeft(restoreSubnode, acc, label.subnodeData)
            DropEdges(a2) == FoldLeft(dropEdge, a2, nodeEdges(a2.g, conj))
        IN  DropEdges(FoldLeft(restoreEdge, a1, label.originalEdges))

\* splitConjunctNodes
splitConjunctNodes(g, t, conjunctNodes) ==
  LET Outcome(split) == [split EXCEPT !.err = split.err \/ split.g.err]
  IN  Outcome(FoldLeft(SplitConjunctNode, [g |-> g, ranks |-> t, err |-> FALSE],
                       conjunctNodes))

\* setYCoordinates: y = rank * NODE_Y_SPACING, a coordinate.
setYCoordinates(g, t) ==
  LET setY(acc, n) ==
        IF acc.err THEN acc
        ELSE IF IsUndefined(node(acc, n)) THEN Throw(acc)
        ELSE [acc EXCEPT !.nl[n] =
                ("y" :> Times(getRank(t, n), 8 * NODE_Y_SPACING)) @@ @]
  IN  FoldLeft(setY, g, g.nodes)

\* ------------------------------------------------------------------------
\* src/src/minimise-crossings.ts
\* ------------------------------------------------------------------------

\* `${v}-${w}-${dummyNodeIndex}`: the numeral of i is the token -(10 + i).
DummyNodeId(v, w, i) == v \o <<DASH>> \o w \o <<DASH, -(10 + i)>>

\* `start-${node}` and `end-${node}`
StartDummyNodeId(n) == <<START>> \o n
EndDummyNodeId(n) == <<END>> \o n

\* handleRelevanceStructures and handleConjunctNodes filter on a field of
\* every node label.  No node carries isRelevanceSink (see relevanceSinks), so
\* that handleRelevanceStructures does nothing else.

\* handleConjunctNodes, the body of the loop over the conjunct nodes.
HandleConjunctNode(acc, conj) ==
  LET nodeLabel == node(acc.g, conj)
      startDummyNodeId == StartDummyNodeId(conj)
      endDummyNodeId == EndDummyNodeId(conj)
      rankNumber == getRank(acc.ranks, conj)
      g1 == setNode(setNode(acc.g, startDummyNodeId,
                            [conjunctNode |-> [id |-> conj, label |-> nodeLabel],
                             isConjunctDummyNode |-> TRUE]),
                    endDummyNodeId, [isConjunctDummyNode |-> TRUE])
      t1 == RankTableSet(RankTableSet(acc.ranks, startDummyNodeId, rankNumber),
                         endDummyNodeId, rankNumber)
      outs == outEdges(g1, conj)
      conjunctTarget == outs[1][2]
      conjunctEdgeLabel == edge(g1, conj, conjunctTarget)
      link(a, child) ==
        [a EXCEPT !.g = setEdge(a.g, child, conjunctTarget,
                                Spread(conjunctEdgeLabel, [isConjunctEdge |-> TRUE])),
                  !.constraintGraph =
                    setEdge(setEdge(a.constraintGraph, startDummyNodeId, child, Undefined),
                            child, endDummyNodeId, Undefined)]
  IN  IF acc.err THEN acc
      ELSE IF ~hasNode(g1, conj) \/ Len(outs) = 0 THEN [acc EXCEPT !.err = TRUE]
      ELSE
        LET \* what follows the loop over the children
            Replace(linked, cg, g2) ==
              [linked EXCEPT
                 !.constraintGraph =
                   IF hasNode(cg, conj)
                     THEN (IF Len(successors(cg, conj)) = 0 THEN cg
                           ELSE removeNode(setEdge(cg, endDummyNodeId,
                                                   successors(cg, conj)[1], Undefined),
                                           conj))
                   ELSE cg,
                 !.g = g2,
                 !.err = g2.err]
            ReplaceIn(linked) ==
              Replace(linked, linked.constraintGraph, removeNode(linked.g, conj))
        IN  ReplaceIn(FoldLeft(link, [acc EXCEPT !.g = g1, !.ranks = t1],
                               children(g1, conj)))

\* handleConjunctNodes
handleConjunctNodes(g, t, constraintGraph) ==
  IF SomeLabelUndefined(g) THEN [g |-> g, ranks |-> t, constraintGraph |-> constraintGraph,
                                 err |-> TRUE]
  ELSE FoldLeft(HandleConjunctNode,
                [g |-> g, ranks |-> t, constraintGraph |-> constraintGraph, err |-> FALSE],
                FilterNodes(g, "isConjunctNode"))

\* graph.setEdge(v, w) without a label: an edge that exists keeps its label,
\* a new one has the default edge label, undefined.
setEdgeDefault(g, v, w) == IF hasEdge(g, v, w) THEN g ELSE setEdge(g, v, w, Undefined)

\* splitLongEdges, the for loop over the ranks strictly between the ends.
RECURSIVE InsertDummyNodes(_, _, _, _, _, _)
InsertDummyNodes(a, v, w, rankIndex, wRank, vY) ==
  IF rankIndex >= wRank THEN a
  ELSE
    LET dummyNodeId == DummyNodeId(v, w, a.dummyNodeIndex)
        dummyNodeY == Plus(vY, Times(NumField(a.g.label, "ranksep"),
                                     8 * (a.dummyNodeIndex + 1)))
        g1 == setNode(a.g, dummyNodeId,
                      [isDummyNode |-> TRUE, y |-> dummyNodeY, edgeData |-> a.edgeData])
    IN  InsertDummyNodes([a EXCEPT !.g = setEdgeDefault(g1, a.previousNodeId, dummyNodeId),
                                   !.ranks = RankTableSet(a.ranks, dummyNodeId, Num(rankIndex)),
                                   !.dummyNodeIndex = @ + 1,
                                   !.previousNodeId = dummyNodeId],
                         v, w, rankIndex + 1, wRank, vY)

\* splitLongEdges, the body of the loop over the edges.  A comparison with
\* a rank that is not finite is false: the for loop then has no iteration.
SplitLongEdge(acc, e) ==
  LET v == e[1]
      w == e[2]
      vRank == ToNumber(getRank(acc.ranks, v))
      wRank == ToNumber(getRank(acc.ranks, w))
      start == [g |-> acc.g, ranks |-> acc.ranks, dummyNodeIndex |-> 0,
                previousNodeId |-> v, edgeData |-> edge(acc.g, v, w)]
      \* if (dummyNodeIndex > 0) { graph.setEdge(previousNodeId, w);
      \* graph.removeEdge(edge); }
      Replaced(chain) ==
        IF chain.dummyNodeIndex > 0
          THEN removeEdge(setEdgeDefault(chain.g, chain.previousNodeId, w), v, w)
        ELSE chain.g
      Outcome(chain, g2) == [g |-> g2, ranks |-> chain.ranks, err |-> g2.err]
      Split(chain) == Outcome(chain, Replaced(chain))
  IN  IF acc.err THEN acc
      ELSE IF IsUndefined(node(acc.g, v)) THEN [acc EXCEPT !.err = TRUE]
      ELSE Split(IF vRank.k = "num" /\ wRank.k = "num"
                   THEN InsertDummyNodes(start, v, w, vRank.v + 1, wRank.v,
                                         Get(node(acc.g, v), "y"))
                 ELSE start)

\* splitLongEdges
splitLongEdges(g, t) ==
  FoldLeft(SplitLongEdge, [g |-> g, ranks |-> t, err |-> FALSE], g.edges)

\* preprocessDataStructures
preprocessDataStructures(g, t) ==
  LET Outcome(handled, split) ==
        [g |-> split.g, ranks |-> split.ranks,
         constraintGraph |-> handled.constraintGraph, err |-> split.err]
      \* splitLongEdges(graph, ranks) after handleConjunctNodes
      SplitAfter(handled) ==
        IF handled.err THEN handled
        ELSE Outcome(handled, splitLongEdges(handled.g, handled.ranks))
  IN  SplitAfter(handleConjunctNodes(g, t, NewGraph(Undefined)))

\* readRankTable: the layers 0, 1, 2, ... up to the first rank without nodes.
RECURSIVE ReadLayersFrom(_, _)
ReadLayersFrom(t, rankNumber) ==
  IF ~hasRank(t, Num(rankNumber)) THEN << >>
  ELSE <<getNodes(t, Num(rankNumber))>> \o ReadLayersFrom(t, rankNumber + 1)

readRankTable(t) == ReadLayersFrom(t, 0)

\* countCrossings, the walk from a leaf of the accumulator tree to its root.
RECURSIVE ClimbAccumulatorTree(_, _, _)
ClimbAccumulatorTree(tree, index, crosscount) ==
  IF index <= 0 THEN [tree |-> tree, crosscount |-> crosscount]
  ELSE LET up == (index - 1) \div 2
       IN  ClimbAccumulatorTree([tree EXCEPT ![up] = @ + 1], up,
                                IF index % 2 = 1 THEN crosscount + tree[index + 1]
                                ELSE crosscount)

RECURSIVE FirstIndex(_, _)
FirstIndex(firstindex, n) == IF firstindex < n THEN FirstIndex(firstindex * 2, n) ELSE firstindex

\* countCrossings
countCrossings(g, northLayer, southLayer) ==
  LET layer0 == IF Len(northLayer) >= Len(southLayer) THEN northLayer ELSE southLayer
      layer1 == IF Len(northLayer) >= Len(southLayer) THEN southLayer ELSE northLayer
      power == FirstIndex(1, Len(layer1))
      treesize == 2 * power - 1
      firstindex == power - 1
      joined(node0) == SelectSeq(layer1, LAMBDA node1 : hasEdge(g, node0, node1)
                                                         \/ hasEdge(g, node1, node0))
      heads == FoldLeft(LAMBDA acc, node0 : acc \o joined(node0), << >>, layer0)
      count(acc, head) ==
        LET index == (IndexOf(layer1, head) - 1) + firstindex
        IN  ClimbAccumulatorTree([acc.tree EXCEPT ![index] = @ + 1], index, acc.crosscount)
  IN  FoldLeft(count, [tree |-> [i \in 0..(treesize - 1) |-> 0], crosscount |-> 0],
               heads).crosscount

\* countTotalCrossings
countTotalCrossings(g, matrix) ==
  FoldLeft(LAMBDA crossings, layerIndex :
             crossings + countCrossings(g, matrix[layerIndex], matrix[layerIndex + 1]),
           0, Indices(1, Len(matrix) - 1, TRUE))

\* ------------------------------------------------------------------------
\* src/src/straighten-edges.ts
\* ------------------------------------------------------------------------

\* appendNodeValues of src/src/utils.ts
appendNodeValues(g, n, value) == setNode(g, n, Spread(node(g, n), value))

\* ------------------------------------------------------------------------
\* src/src/minimise-crossings.ts: sortLayers, sweepLayer
\* ------------------------------------------------------------------------

\* The number sum / count of two integers, count not negative: NaN for 0 / 0
\* and otherwise the quotient, kept as the pair so that it is exact.
Quotient(sum, count) == [sum |-> sum, count |-> count]

\* Is a barycenter a number to compare (not undefined, not NaN)?
IsOrdered(b) == ~IsUndefined(b) /\ b.count > 0

\* a < b of two barycenters; false when one of them is undefined or NaN.
QuotientLess(a, b) ==
  IsOrdered(a) /\ IsOrdered(b) /\ a.sum * b.count < b.sum * a.count

\* neighbors.reduce((sum, neighbor) => sum + fixedLayer.indexOf(neighbor), 0)
PositionSum(fixedLayer, nbrs) ==
  FoldLeft(LAMBDA sum, neighbor : sum + (IndexOf(fixedLayer, neighbor) - 1), 0, nbrs)

\* graph.predecessors(node) || [] when sweeping down, the successors when
\* sweeping up.
SweepNeighbors(g, n, direction) ==
  IF direction = "down" THEN predecessors(g, n) ELSE successors(g, n)

\* getViolatedConstraint, the while loop: nodes is the stack, incoming the
\* object incomingConstraints.  found is the constraint returned, empty for
\* undefined; a push on a list the object does not hold throws.
RECURSIVE ViolatedFrom(_, _, _, _)
ViolatedFrom(layer, cg, nodes, incoming) ==
  IF Len(nodes) = 0 THEN [found |-> << >>, err |-> FALSE]
  ELSE
    LET n == nodes[Len(nodes)]
        popped == SubSeq(nodes, 1, Len(nodes) - 1)
        violated == SelectSeq(incoming[n],
                              LAMBDA c : IndexOf(layer, c[1]) >= IndexOf(layer, n))
        push(acc, c) ==
          IF acc.err THEN acc
          ELSE IF c[2] \notin DOMAIN acc.incoming THEN [acc EXCEPT !.err = TRUE]
          ELSE LET pushed == Append(acc.incoming[c[2]], c)
               IN  [acc EXCEPT !.incoming[c[2]] = pushed,
                               !.nodes = IF Len(pushed) = Len(inEdges(cg, c[2]))
                                           THEN Append(@, c[2]) ELSE @]
        after == FoldLeft(push, [nodes |-> popped, incoming |-> incoming, err |-> FALSE],
                          outEdges(cg, n))
    IN  IF Len(violated) > 0 THEN [found |-> <<violated[1]>>, err |-> FALSE]
        ELSE IF after.err THEN [found |-> << >>, err |-> TRUE]
        ELSE ViolatedFrom(layer, cg, after.nodes, after.incoming)

\* getViolatedConstraint
getViolatedConstraint(layer, cg) ==
  LET constrainedNodes == SelectSeq(layer, LAMBDA n : Len(nodeEdges(cg, n)) > 0)
  IN  ViolatedFrom(layer, cg,
                   SelectSeq(constrainedNodes, LAMBDA n : Len(inEdges(cg, n)) = 0),
                   [n \in Range(constrainedNodes) |-> << >>])

\* `${v}-${w}`
MetaNodeId(v, w) == v \o <<DASH>> \o w

\* sweepLayer, the body of while (violatedConstraint) up to the next call of
\* getViolatedConstraint: the two nodes of the constraint become a meta
\* node that takes over their constraints.
MergeConstrained(g, fixedLayer, direction, acc, v, w) ==
  LET vNeighbors == SweepNeighbors(g, v, direction)
      wNeighbors == SweepNeighbors(g, w, direction)
      vBarycenter == Get(node(g, v), "barycenter")
      wBarycenter == Get(node(g, w), "barycenter")
      metaNodeId == MetaNodeId(v, w)
      metaNodeLabel ==
        [barycenter |-> Quotient(PositionSum(fixedLayer, vNeighbors)
                                   + PositionSum(fixedLayer, wNeighbors),
                                 Len(vNeighbors) + Len(wNeighbors)),
         subnodes |-> IF QuotientLess(vBarycenter, wBarycenter) THEN <<v, w>> ELSE <<w, v>>]
      cg1 == setNode(acc.cg, metaNodeId, metaNodeLabel)
      incomingConstraints == inEdges(cg1, v) \o inEdges(cg1, w)
      outgoingConstraints == outEdges(cg1, v) \o outEdges(cg1, w)
      moveIn(cg, c) ==
        IF c[1] # metaNodeId THEN setEdgeDefault(removeEdge(cg, c[1], c[2]), c[1], metaNodeId)
        ELSE removeEdge(cg, c[1], c[2])
      moveOut(cg, c) ==
        IF c[2] # metaNodeId THEN setEdgeDefault(removeEdge(cg, c[1], c[2]), metaNodeId, c[2])
        ELSE removeEdge(cg, c[1], c[2])
  IN  IF IsUndefined(node(g, v)) \/ IsUndefined(node(g, w)) THEN [acc EXCEPT !.err = TRUE]
      ELSE IF Len(incomingConstraints) + Len(outgoingConstraints) > 0
        THEN [acc EXCEPT !.cg = FoldLeft(moveOut, FoldLeft(moveIn, cg1, incomingConstraints),
                                         outgoingConstraints)]
      ELSE [acc EXCEPT !.cg = cg1,
                       !.unconstrainedNodes = Append(@, metaNodeId)]

\* sweepLayer, its while loop: the constraints are looked for in the south
\* layer from the second search on.  steps bounds the iterations the model
\* follows; the loop of the program has no bound.
RECURSIVE ResolveConstraints(_, _, _, _, _, _, _)
ResolveConstraints(g, fixedLayer, southLayer, direction, acc, violatedConstraint, steps) ==
  IF acc.err \/ violatedConstraint.err THEN [acc EXCEPT !.err = TRUE]
  ELSE IF Len(violatedConstraint.found) = 0 THEN acc
  ELSE IF steps = 0 THEN [acc EXCEPT !.hang = TRUE]
  ELSE
    LET c == violatedConstraint.found[1]
        merged == MergeConstrained(g, fixedLayer, direction, acc, c[1], c[2])
    IN  ResolveConstraints(g, fixedLayer, southLayer, direction, merged,
                           IF merged.err THEN [found |-> << >>, err |-> TRUE]
                           ELSE getViolatedConstraint(southLayer, merged.cg),
                           steps - 1)

\* unpackSubnodes; depth bounds the recursion, which ends on every label the
\* program writes.  The list is empty, and err set, where a label has no
\* subnodes.
RECURSIVE unpackSubnodes(_, _, _)
unpackSubnodes(cg, n, depth) ==
  LET subnodes == node(cg, n).subnodes
      unpack(acc, subnode) ==
        LET sub == unpackSubnodes(cg, subnode, depth - 1)
        IN  [list |-> acc.list \o sub.list, err |-> acc.err \/ sub.err]
  IN  IF ~Has(node(cg, n), "subnodes") \/ depth = 0 THEN [list |-> << >>, err |-> TRUE]
      ELSE IF Len(subnodes) > 1
        THEN FoldLeft(unpack, [list |-> << >>, err |-> FALSE], subnodes)
      ELSE [list |-> subnodes, err |-> FALSE]

\* The arrangements of a list.
RECURSIVE ArrangementsOf(_)
ArrangementsOf(list) ==
  IF Len(list) = 0 THEN {<< >>}
  ELSE UNION {{<<list[i]>> \o rest : rest \in ArrangementsOf(RemoveAt(list, i))} :
                i \in DOMAIN list}

\* What sortingList.sort((v, w) => vBarycenter - wBarycenter) may make of
\* the list.  With barycenters that are all numbers it is the ascending
\* order in which equal ones keep their places (the sort is stable): a node
\* comes after the nodes of a smaller barycenter and after those of an
\* equal one that stood before it.  A difference that is NaN makes the
\* comparator inconsistent, and the order is then whatever the engine's
\* sort algorithm makes of it: any arrangement of the list.
BarycenterSortOutcomes(cg, sortingList) ==
  LET barycenter(n) == Get(node(cg, n), "barycenter")
      before(i) ==
        Cardinality({j \in DOMAIN sortingList :
                       \/ QuotientLess(barycenter(sortingList[j]), barycenter(sortingList[i]))
                       \/ /\ ~QuotientLess(barycenter(sortingList[i]),
                                            barycenter(sortingList[j]))
                          /\ j < i})
  IN  IF \A i \in DOMAIN sortingList : IsOrdered(barycenter(sortingList[i]))
        THEN {[k \in DOMAIN sortingList |->
                 sortingList[CHOOSE i \in DOMAIN sortingList : before(i) = k - 1]]}
      ELSE ArrangementsOf(sortingList)

\* sweepLayer, the test under which it returns sortedLayer and not
\* targetLayer.
sortedLayerHasFewerCrossings(g, fixedLayer, sortedLayer, northLayer, southLayer) ==
  countCrossings(g, fixedLayer, sortedLayer) < countCrossings(g, northLayer, southLayer)

\* sweepLayer: the layers it may return, or that it throws or does not end.
sweepLayer(g, constraintGraph, northLayer, southLayer, direction) ==
  LET targetLayer == IF direction = "down" THEN southLayer ELSE northLayer
      fixedLayer == IF direction = "down" THEN northLayer ELSE southLayer
      setBarycenter(cg, n) ==
        LET nbrs == SweepNeighbors(g, n, direction)
        IN  appendNodeValues(cg, n,
                             [barycenter |-> Quotient(PositionSum(fixedLayer, nbrs), Len(nbrs)),
                              subnodes |-> <<n>>])
      mutableConstraintGraph == FoldLeft(setBarycenter, buildSimpleGraph(constraintGraph),
                                         targetLayer)
      unconstrainedNodes ==
        SelectSeq(targetLayer, LAMBDA n : Len(nodeEdges(mutableConstraintGraph, n)) = 0)
      \* what follows the while loop
      Sorted(resolved) ==
        LET constrainedNodes ==
              SelectSeq(southLayer, LAMBDA n : Len(nodeEdges(resolved.cg, n)) > 0)
            sortingList == resolved.unconstrainedNodes \o constrainedNodes
            Unpacked(sorted) ==
              FoldLeft(LAMBDA acc, n :
                         LET sub == unpackSubnodes(resolved.cg, n, Len(resolved.cg.nodes))
                         IN  [list |-> acc.list \o sub.list, err |-> acc.err \/ sub.err],
                       [list |-> << >>, err |-> FALSE], sorted)
            Returned(sortedLayer) ==
              IF sortedLayer.err THEN [layer |-> targetLayer, err |-> TRUE, hang |-> FALSE]
              ELSE IF sortedLayerHasFewerCrossings(g, fixedLayer, sortedLayer.list,
                                                   northLayer, southLayer)
                THEN [layer |-> sortedLayer.list, err |-> FALSE, hang |-> FALSE]
              ELSE [layer |-> targetLayer, err |-> FALSE, hang |-> FALSE]
        IN  IF resolved.err \/ resolved.hang
              THEN {[layer |-> targetLayer, err |-> resolved.err, hang |-> resolved.hang]}
            ELSE {Returned(Unpacked(sorted)) :
                    sorted \in BarycenterSortOutcomes(resolved.cg, sortingList)}
  IN  Sorted(ResolveConstraints(g, fixedLayer, southLayer, direction,
                                [cg |-> mutableConstraintGraph,
                                 unconstrainedNodes |-> unconstrainedNodes,
                                 err |-> mutableConstraintGraph.err, hang |-> FALSE],
                                getViolatedConstraint(targetLayer, mutableConstraintGraph),
                                Len(mutableConstraintGraph.nodes)))

\* ------------------------------------------------------------------------
\* src/src/straighten-edges.ts, continued
\* ------------------------------------------------------------------------

\* markConflicts, the body of the while loop: node1 is layer[node1Index].
MarkNode(g, node1, predecessor0Index, predecessor1Index) ==
  LET preds == predecessors(g, node1)
      mark(acc, k) ==
        IF k - 1 < predecessor0Index \/ k - 1 > predecessor1Index
          THEN setEdge(acc, preds[k], node1, [conflicted |-> TRUE])
        ELSE acc
  IN  FoldLeft(mark, g, [k \in 1..Len(preds) |-> k])

\* markConflicts, the body of the loop over the nodes of a layer (j counts
\* from 0 as in the program, as do the indices kept in acc).
MarkLayerNode(upper, layer, acc, j) ==
  LET node0 == layer[j + 1]
      isDummyNode == Flag(node(acc.g, node0), "isDummyNode")
      predecessor1Index ==
        IF isDummyNode THEN IndexOf(upper, predecessors(acc.g, node0)[1]) - 1
        ELSE Len(upper) - 1
      marked == FoldLeft(LAMBDA g, i : MarkNode(g, layer[i + 1], acc.predecessor0Index,
                                               predecessor1Index),
                         acc.g, Indices(acc.node1Index, j, TRUE))
  IN  IF acc.g.err THEN acc
      ELSE IF IsUndefined(node(acc.g, node0)) THEN [acc EXCEPT !.g = Throw(@)]
      ELSE IF j = Len(layer) - 1 \/ isDummyNode
        THEN [g |-> marked, predecessor0Index |-> predecessor1Index,
              node1Index |-> Max2(acc.node1Index, j + 1)]
      ELSE acc

\* markConflicts
markConflicts(graph0, graphMatrix) ==
  LET cleared == FoldLeft(LAMBDA g, e : setEdge(g, e[1], e[2], [conflicted |-> FALSE]),
                          graph0, graph0.edges)
      markLayer(g, i) ==
        FoldLeft(LAMBDA acc, j : MarkLayerNode(graphMatrix[i + 1], graphMatrix[i + 2], acc, j),
                 [g |-> g, predecessor0Index |-> 0, node1Index |-> 1],
                 [j \in 1..Len(graphMatrix[i + 2]) |-> j - 1]).g
  IN  FoldLeft(markLayer, cleared, Indices(1, Len(graphMatrix) - 2, TRUE))

\* alignVertically, the body of the loop over k (which counts from 0).
AlignNeighbor(topBias, leftBias, n, nbrs, acc, k) ==
  LET g == acc.g
      label == node(g, n)
      neighbor == nbrs[k + 1]
      edgeLabel == IF topBias THEN edge(g, neighbor, n) ELSE edge(g, n, neighbor)
      edgeIsConflicted == Flag(edgeLabel, "conflicted")
      alignmentDoesNotOverlap == IF leftBias THEN acc.lastNeighborIndex < k
                                 ELSE acc.lastNeighborIndex > k
      aligned ==
        IF topBias
          THEN LET neighborRoot == node(g, neighbor).blockRoot
               IN  appendNodeValues(appendNodeValues(g, neighbor, [nextBlockNode |-> n]),
                                    n, [blockRoot |-> neighborRoot,
                                        nextBlockNode |-> neighborRoot])
        ELSE LET nodeRoot == label.blockRoot
             IN  appendNodeValues(appendNodeValues(g, n, [nextBlockNode |-> neighbor]),
                                  neighbor, [blockRoot |-> nodeRoot,
                                             nextBlockNode |-> nodeRoot])
  IN  IF g.err THEN acc
      ELSE IF ~(label.nextBlockNode = n /\ k < Len(nbrs) /\ neighbor # EMPTY) THEN acc
      ELSE IF IsUndefined(edgeLabel) THEN [acc EXCEPT !.g = Throw(@)]
      ELSE IF ~edgeIsConflicted /\ alignmentDoesNotOverlap
        THEN [g |-> aligned, lastNeighborIndex |-> k]
      ELSE acc

\* alignVertically, the body of the loop over the nodes of a layer.
AlignNode(topBias, leftBias, acc, n) ==
  LET nbrs == IF topBias THEN predecessors(acc.g, n) ELSE successors(acc.g, n)
      leftNeighborIndex == Len(nbrs) \div 2
      rightNeighborIndex == (Len(nbrs) + 1) \div 2
  IN  IF acc.g.err THEN acc
      ELSE IF ~hasNode(acc.g, n) THEN [acc EXCEPT !.g = Throw(@)]
      ELSE FoldLeft(LAMBDA a, k : AlignNeighbor(topBias, leftBias, n, nbrs, a, k - 1),
                    acc,
                    IF Len(nbrs) = 0 THEN << >>
                    ELSE Indices(leftNeighborIndex + 1, rightNeighborIndex + 1, leftBias))

\* alignVertically
alignVertically(graph0, graphMatrix, leftBias, topBias) ==
  LET started == FoldLeft(LAMBDA g, n : appendNodeValues(g, n, [nextBlockNode |-> n,
                                                                 blockRoot |-> n]),
                          graph0, graph0.nodes)
      alignLayer(g, i) ==
        LET layer == graphMatrix[i]
            order == SeqMap(LAMBDA j : layer[j], Indices(1, Len(layer), leftBias))
        IN  FoldLeft(LAMBDA acc, n : AlignNode(topBias, leftBias, acc, n),
                     [g |-> g,
                      lastNeighborIndex |-> IF leftBias THEN -1 ELSE Len(layer)],
                     order).g
  IN  FoldLeft(alignLayer, started, Indices(1, Len(graphMatrix), topBias))

\* graphMatrix.findIndex((layer) => layer.includes(currentNode)), 1-based;
\* 0 when no layer has the node.
LayerIndexOf(graphMatrix, n) ==
  IF \E i \in DOMAIN graphMatrix : InSeq(graphMatrix[i], n)
    THEN CHOOSE i \in DOMAIN graphMatrix :
           /\ InSeq(graphMatrix[i], n)
           /\ \A j \in 1..(i - 1) : ~InSeq(graphMatrix[j], n)
  ELSE 0

RECURSIVE placeBlock(_, _, _, _)
RECURSIVE PlaceBlockWalk(_, _, _, _, _, _)

\* placeBlock, the do-while loop from currentNode on.  The loop ends when the
\* walk along nextBlockNode is back at the node; visited holds the nodes it
\* has passed, and a walk that comes back to one of them never reaches the
\* node again: the loop then runs forever (hang).
PlaceBlockWalk(g, graphMatrix, n, delta, currentNode, visited) ==
  LET layerIndex == LayerIndexOf(graphMatrix, currentNode)
      nodeIndex == IndexOf(graphMatrix[layerIndex], currentNode)
      previousNode == graphMatrix[layerIndex][nodeIndex - 1]
      previousNodeRoot == node(g, previousNode).blockRoot
      \* the if statement on the class sinks, in the graph g2 in which the
      \* class sink of the node is set
      Separate(g2, nodeX, previousNodeX, previousNodeSink) ==
        IF node(g2, n).classSink # previousNodeSink
          THEN IF ~hasNode(g2, previousNodeSink) THEN Throw(g2)
               ELSE appendNodeValues(
                      g2, previousNodeSink,
                      [shift |-> MathMin2(Get(node(g2, previousNodeSink), "shift"),
                                          Minus(Minus(nodeX, previousNodeX), delta))])
        ELSE [g2 EXCEPT !.nl[n] =
                ("x" :> MathMax2(nodeX, Plus(previousNodeX, delta))) @@ @]
      SeparateIn(g2) ==
        Separate(g2, Get(node(g2, n), "x"), Get(node(g2, previousNodeRoot), "x"),
                 node(g2, previousNodeRoot).classSink)
      \* if (nodeData.classSink === node) { ... }, in the graph g1 left by
      \* the recursive call
      SetClassSink(g1) ==
        SeparateIn(IF node(g1, n).classSink = n
                     THEN appendNodeValues(
                            g1, n, [classSink |-> node(g1, previousNodeRoot).classSink])
                   ELSE g1)
      \* currentNode = graph.node(currentNode).nextBlockNode and the
      \* condition of the loop
      Continue(after, next) ==
        IF after.err \/ next = n THEN [g |-> after, hang |-> FALSE]
        ELSE PlaceBlockWalk(after, graphMatrix, n, delta, next,
                            Append(visited, currentNode))
      ContinueIn(after) == Continue(after, node(after, currentNode).nextBlockNode)
      AfterPlacing(placed) ==
        IF placed.hang \/ placed.g.err THEN placed
        ELSE ContinueIn(SetClassSink(placed.g))
  IN  IF InSeq(visited, currentNode) THEN [g |-> g, hang |-> TRUE]
      ELSE IF layerIndex = 0 THEN [g |-> Throw(g), hang |-> FALSE]
      ELSE IF nodeIndex > 1 /\ ~hasNode(g, previousNode) THEN [g |-> Throw(g), hang |-> FALSE]
      ELSE IF nodeIndex > 1
        THEN AfterPlacing(placeBlock(g, graphMatrix, previousNodeRoot, delta))
      ELSE ContinueIn(g)

\* placeBlock
placeBlock(g, graphMatrix, n, delta) ==
  IF ~hasNode(g, n) THEN [g |-> Throw(g), hang |-> FALSE]
  ELSE IF Get(node(g, n), "x") # Undefined THEN [g |-> g, hang |-> FALSE]
  ELSE PlaceBlockWalk(appendNodeValues(g, n, [x |-> Num(0)]), graphMatrix, n, delta,
                      n, << >>)

\* compactHorizontally, the last loop: x of the block root, shifted by the
\* shift of its class when that is finite.
SetBlockX(g, n) ==
  LET vRoot == node(g, n).blockRoot
      vRootSink == node(g, vRoot).classSink
      rootX == Get(node(g, vRoot), "x")
      shift == Get(node(g, vRootSink), "shift")
  IN  IF g.err THEN g
      ELSE IF ~hasNode(g, vRoot) THEN Throw(g)
      ELSE IF ~hasNode(g, vRootSink) THEN Throw(g)
      ELSE [g EXCEPT !.nl[n] =
              ("x" :> IF Less(shift, Infinity) THEN Plus(rootX, shift) ELSE rootX) @@ @]

\* compactHorizontally
compactHorizontally(graph0, graphMatrix, delta) ==
  LET started == FoldLeft(LAMBDA g, n : appendNodeValues(g, n, [classSink |-> n,
                                                                 shift |-> Infinity]),
                          graph0, graph0.nodes)
      place(acc, n) ==
        IF acc.hang \/ acc.g.err \/ node(acc.g, n).blockRoot # n THEN acc
        ELSE placeBlock(acc.g, graphMatrix, n, delta)
      SetXs(placed) ==
        IF placed.hang \/ placed.g.err THEN placed
        ELSE [g |-> FoldLeft(SetBlockX, placed.g, placed.g.nodes), hang |-> FALSE]
  IN  SetXs(FoldLeft(place, [g |-> started, hang |-> FALSE], started.nodes))

\* graphXObjects with the largest x sought downwards from Infinity: the
\* extent of a copy without nodes is then Infinity - Infinity, which no
\* width equals.
GraphXObjectFromInfinity(biasedGraph) ==
  LET widen(acc, n) ==
        LET x == Get(node(biasedGraph, n), "x")
        IN  [smallestX |-> IF Less(x, acc.smallestX) THEN x ELSE acc.smallestX,
             largestX |-> IF Less(acc.largestX, x) THEN x ELSE acc.largestX]
      XObject(extent) ==
        [width |-> Minus(extent.largestX, extent.smallestX),
         smallestX |-> extent.smallestX, largestX |-> extent.largestX]
  IN  XObject(FoldLeft(widen, [smallestX |-> Infinity, largestX |-> Infinity],
                       biasedGraph.nodes))

\* graphXObjects: the extent of a biased copy.
GraphXObject(biasedGraph) ==
  LET widen(acc, n) ==
        LET x == Get(node(biasedGraph, n), "x")
        IN  [smallestX |-> IF Less(x, acc.smallestX) THEN x ELSE acc.smallestX,
             largestX |-> IF Less(acc.largestX, x) THEN x ELSE acc.largestX]
      XObject(extent) ==
        [width |-> Minus(extent.largestX, extent.smallestX),
         smallestX |-> extent.smallestX, largestX |-> extent.largestX]
  IN  XObject(FoldLeft(widen, [smallestX |-> Infinity, largestX |-> NegInfinity],
                       biasedGraph.nodes))

\* biasedGraph.node(node).x += xShift for every node
ShiftX(biasedGraph, xShift) ==
  FoldLeft(LAMBDA g, n : [g EXCEPT !.nl[n] =
                            ("x" :> Plus(Get(g.nl[n], "x"), xShift)) @@ @],
           biasedGraph, biasedGraph.nodes)

\* The four biased copies shifted to the narrowest one, in the order
\* leftTop, rightTop, leftBottom, rightBottom.  The left copies are shifted
\* by the extents at the indices 0 and 1, the right copies by those at 2, 3.
AlignedBiasedGraphs(biasedGraphs) ==
  LET \* the loop over the biased graphs, found being the result of
      \* graphXObjects.find(...)
      Shift(graphXObjects, found) ==
        LET leftShift(i) == Minus(found[1].smallestX, graphXObjects[i].smallestX)
            rightShift(i) == Minus(found[1].largestX, graphXObjects[i].largestX)
        IN  IF Len(found) = 0 THEN [graphs |-> biasedGraphs, err |-> TRUE]
            ELSE [graphs |-> <<ShiftX(biasedGraphs[1], leftShift(1)),
                               ShiftX(biasedGraphs[2], rightShift(3)),
                               ShiftX(biasedGraphs[3], leftShift(2)),
                               ShiftX(biasedGraphs[4], rightShift(4))>>,
                  err |-> FALSE]
      Find(graphXObjects, smallestWidth) ==
        Shift(graphXObjects,
              SelectSeq(graphXObjects, LAMBDA o : StrictEq(o.width, smallestWidth)))
      Align(graphXObjects) ==
        Find(graphXObjects, MathMin(SeqMap(LAMBDA o : o.width, graphXObjects)))
  IN  Align(SeqMap(GraphXObject, biasedGraphs))

\* The arrangements of four elements.
Arrangements4 == {f \in [1..4 -> 1..4] : \A i, j \in 1..4 : i # j => f[i] # f[j]}

\* What [...].sort((a, b) => a - b) may make of four numbers.  With finite
\* differences that is the ascending order.  A difference that is NaN makes
\* the comparator inconsistent, and the order is then whatever the engine's
\* sort algorithm makes of it: any arrangement of the four.
SortOutcomes(b) ==
  {p \in {[i \in 1..4 |-> b[f[i]]] : f \in Arrangements4} :
     (\A i \in 1..4 : b[i].k # "nan") => \A i \in 1..3 : ~Less(p[i + 1], p[i])}

\* The values newNodeX = (biasedNodes[1] + biasedNodes[2]) / 2 can take.
NewNodeXs(biasedNodes) ==
  {Half(Plus(p[2], p[3])) : p \in SortOutcomes(biasedNodes)}

\* ------------------------------------------------------------------------
\* straighten-edges.ts in the version that reads the widths of the nodes
\* and graph.graph().nodesep (src/unnamed/part_021)
\* ------------------------------------------------------------------------

\* A numeric field of a label as a coordinate; undefined when absent.  A
\* field that holds no whole number (NaN) is the number it holds.
CoordField(l, f) ==
  IF ~Has(l, f) THEN Undefined
  ELSE IF l[f] \in Int THEN Coord(l[f])
  ELSE l[f]

REQUIRED_PROPERTIES == [edgeProperties |-> <<"isConflicted">>]

\* The fields of a label that a structural copy carries.
CarriedLabel(label, properties) ==
  FoldLeft(LAMBDA acc, p : IF Has(label, p) THEN (p :> label[p]) @@ acc ELSE acc,
           << >>, properties)

\* buildSimpleGraph(graph, properties) of ./utils, a structural copy that
\* carries the enumerated fields of the labels and nothing else.
buildSimpleGraphCarrying(graph0, nodeProperties, edgeProperties) ==
  LET g1 == FoldLeft(LAMBDA acc, n :
                       setNode(acc, n, CarriedLabel(node(graph0, n), nodeProperties)),
                     NewGraph(<< >>), graph0.nodes)
  IN  FoldLeft(LAMBDA acc, e :
                 setEdge(acc, e[1], e[2],
                         CarriedLabel(edge(graph0, e[1], e[2]), edgeProperties)),
               g1, graph0.edges)

\* restoreConjunctNodes: graphMatrix[graph.node(node).y / graph.graph().ranksep],
\* as a 1-based index; 0 where the program finds undefined.
LayerIndexOfY(graphMatrix, y, ranksep) ==
  IF IsUndefined(y) \/ IsUndefined(ranksep) THEN 0
  ELSE IF y.k # "num" \/ ranksep.k # "num" \/ ranksep.v <= 0 THEN 0
  ELSE IF y.v % ranksep.v # 0 THEN 0
  ELSE IF (y.v \div ranksep.v) + 1 \in DOMAIN graphMatrix THEN (y.v \div ranksep.v) + 1
  ELSE 0

\* A width the program has summed up, as the labels hold widths.
WidthOfCoord(a) == IF a.k = "num" THEN a.v \div 8 ELSE a

\* restoreConjunctNodes, the while loop: the nodes that follow the start
\* dummy node in its layer are given back to the conjunct node, up to the
\* next conjunct dummy node.  index counts from 0.
RECURSIVE RestoreSubnodes(_, _, _, _, _, _)
RestoreSubnodes(g, layer, index, conjunctNodeId, conjunctTarget, conjunctNodeWidth) ==
  LET currentNode == layer[index + 1]
      Step(g1) ==
        IF g1.err THEN [g |-> g1, width |-> conjunctNodeWidth]
        ELSE IF IsUndefined(node(g1, currentNode))
          THEN [g |-> Throw(g1), width |-> conjunctNodeWidth]
        ELSE RestoreSubnodes(g1, layer, index + 1, conjunctNodeId, conjunctTarget,
                             Plus(Plus(conjunctNodeWidth,
                                       CoordField(node(g1, currentNode), "width")),
                                  CoordField(g1.label, "nodesep")))
  IN  IF g.err THEN [g |-> g, width |-> conjunctNodeWidth]
      ELSE IF index + 1 \notin DOMAIN layer
        THEN [g |-> Throw(g), width |-> conjunctNodeWidth]
      ELSE IF IsUndefined(node(g, currentNode))
        THEN [g |-> Throw(g), width |-> conjunctNodeWidth]
      ELSE IF Flag(node(g, currentNode), "isConjunctDummyNode")
        THEN [g |-> g, width |-> conjunctNodeWidth]
      ELSE Step(setParent(removeEdge(g, currentNode, conjunctTarget), currentNode,
                          conjunctNodeId))

\* restoreConjunctNodes, the body of startDummyNodes.forEach
RestoreConjunctNode(graphMatrix, g, n) ==
  LET label == node(g, n)
      \* what follows the while loop
      Finish(restored, id, conjunctTarget, conjunctEdgeLabel) ==
        IF restored.g.err THEN restored.g
        ELSE IF IsUndefined(node(restored.g, id)) THEN Throw(restored.g)
        ELSE removeNode(
               setEdge([restored.g EXCEPT !.nl[id] =
                          ("width" :> WidthOfCoord(Minus(restored.width,
                                                         CoordField(restored.g.label,
                                                                    "nodesep")))) @@ @],
                       id, conjunctTarget, conjunctEdgeLabel),
               n)
      \* from const layer = graphMatrix[layerIndex] on, in the graph g1 that
      \* has the conjunct node again
      Restore(g1, id, layerIndex) ==
        IF g1.err \/ layerIndex = 0 THEN Throw(g1)
        ELSE LET layer == graphMatrix[layerIndex]
                 index == IndexOf(layer, n)
                 edgeLabel == edge(g1, layer[index + 1], Tail(id))
             IN  IF index + 1 \notin DOMAIN layer THEN Throw(g1)
                 ELSE IF IsUndefined(edgeLabel) THEN Throw(g1)
                 ELSE Finish(RestoreSubnodes(g1, layer, index, id, Tail(id), Num(0)),
                             id, Tail(id), Get(edgeLabel, "conjunctEdgeLabel"))
  IN  IF g.err THEN g
      ELSE IF IsUndefined(label) \/ IsUndefined(g.label) THEN Throw(g)
      ELSE IF ~Has(label, "conjunctNode") THEN Throw(g)
      ELSE Restore(setNode(g, label.conjunctNode.id, label.conjunctNode.label),
                   label.conjunctNode.id,
                   LayerIndexOfY(graphMatrix, Get(label, "y"),
                                 CoordField(g.label, "ranksep")))

\* restoreConjunctNodes: the conjunct nodes that handleConjunctNodes has
\* replaced by a start and an end dummy node are put back.
restoreConjunctNodes(g, graphMatrix) ==
  LET conjunctDummyNodes == FilterNodes(g, "isConjunctDummyNode")
      startDummyNodes == SelectSeq(conjunctDummyNodes, LAMBDA n : Head(n) = START)
      endDummyNodes == SelectSeq(conjunctDummyNodes, LAMBDA n : Head(n) # START)
      RemoveEnds(restored) ==
        FoldLeft(LAMBDA acc, n : IF acc.err THEN acc ELSE removeNode(acc, n),
                 restored, endDummyNodes)
  IN  IF SomeLabelUndefined(g) THEN Throw(g)
      ELSE RemoveEnds(FoldLeft(LAMBDA acc, n : RestoreConjunctNode(graphMatrix, acc, n),
                               g, startDummyNodes))

\* graph.edge(v, w).isConflicted = true
SetConflicted(g, v, w) ==
  IF g.err THEN g
  ELSE IF IsUndefined(edge(g, v, w)) THEN Throw(g)
  ELSE [g EXCEPT !.el[<<v, w>>] = ("isConflicted" :> TRUE) @@ @]

\* markConflicts, the body of the while loop: node1 is layer[node1Index].
MarkConflictsOfNode(g, node1, predecessor0Index, predecessor1Index) ==
  LET preds == predecessors(g, node1)
      mark(acc, k) ==
        IF k - 1 < predecessor0Index \/ k - 1 > predecessor1Index
          THEN SetConflicted(acc, preds[k], node1)
        ELSE acc
  IN  FoldLeft(mark, g, [k \in 1..Len(preds) |-> k])

\* markConflicts, the body of the loop over the nodes of a layer (nodeIndex
\* counts from 0 as in the program, as do the indices kept in acc).
MarkConflictsAt(upper, layer, acc, nodeIndex) ==
  LET node0 == layer[nodeIndex + 1]
      markOutEdge(g, e) ==
        IF e[2] = Tail(node0) THEN g ELSE SetConflicted(g, e[1], e[2])
      \* the while loop, predecessor1Index being known
      Marked(g, predecessor1Index) ==
        [g |-> FoldLeft(LAMBDA h, i : MarkConflictsOfNode(h, layer[i + 1],
                                                          acc.predecessor0Index,
                                                          predecessor1Index),
                        g, Indices(acc.node1Index, nodeIndex, TRUE)),
         predecessor0Index |-> predecessor1Index,
         node1Index |-> Max2(acc.node1Index, nodeIndex + 1)]
      \* the second if statement, in the graph g left by the first
      Window(g) ==
        LET isDummyNode == Flag(node(g, node0), "isDummyNode")
            preds == predecessors(g, node0)
        IN  IF g.err \/ ~(nodeIndex = Len(layer) - 1 \/ isDummyNode)
              THEN [acc EXCEPT !.g = g]
            ELSE IF ~isDummyNode THEN Marked(g, Len(upper) - 1)
            ELSE IF Len(preds) = 0 THEN Marked(g, -1)
            ELSE Marked(g, IndexOf(upper, preds[1]) - 1)
  IN  IF acc.g.err THEN acc
      ELSE IF IsUndefined(node(acc.g, node0)) THEN [acc EXCEPT !.g = Throw(@)]
      ELSE Window(IF Flag(node(acc.g, node0), "isConjunctNode")
                    THEN FoldLeft(markOutEdge, acc.g, outEdges(acc.g, node0))
                  ELSE acc.g)

\* markConflicts of this version: it marks the edges of the graph it is
\* given, and its loop stops two layers before the last.
markConflictsInPlace(graph0, graphMatrix) ==
  LET cleared == FoldLeft(LAMBDA g, e : setEdge(g, e[1], e[2], [isConflicted |-> FALSE]),
                          graph0, graph0.edges)
      markLayer(g, layerIndex) ==
        FoldLeft(LAMBDA acc, j : MarkConflictsAt(graphMatrix[layerIndex + 1],
                                                 graphMatrix[layerIndex + 2], acc, j),
                 [g |-> g, predecessor0Index |-> 0, node1Index |-> 1],
                 [j \in 1..Len(graphMatrix[layerIndex + 2]) |-> j - 1]).g
  IN  FoldLeft(markLayer, cleared, Indices(1, Len(graphMatrix) - 3, TRUE))

\* alignVertically, the while loop of the bottom bias: every node of the
\* block of the neighbor is given the node as its root, and the last of
\* them the node as its next.
RECURSIVE ReRootBlock(_, _, _, _)
ReRootBlock(g, blockNode, neighbor, n) ==
  IF IsUndefined(node(g, blockNode)) THEN Throw(g)
  ELSE IF ~Has(node(g, blockNode), "nextBlockNode")
    THEN Throw([g EXCEPT !.nl[blockNode] = ("blockRoot" :> n) @@ @])
  ELSE IF node(g, blockNode).nextBlockNode # neighbor
    THEN ReRootBlock([g EXCEPT !.nl[blockNode] = ("blockRoot" :> n) @@ @],
                     node(g, blockNode).nextBlockNode, neighbor, n)
  ELSE [g EXCEPT !.nl[blockNode] = ("blockRoot" :> n) @@ ("nextBlockNode" :> n) @@ @]

\* alignVertically, the body of if (!edgeIsConflicted && alignmentDoesNotOverlap)
AlignBlocks(g, n, neighbor, topBias) ==
  IF IsUndefined(node(g, neighbor)) THEN Throw(g)
  ELSE IF topBias
    THEN LET neighborRoot == Get(node(g, neighbor), "blockRoot")
         IN  [g EXCEPT !.nl[neighbor] = ("nextBlockNode" :> n) @@ @,
                       !.nl[n] = ("blockRoot" :> neighborRoot)
                                   @@ ("nextBlockNode" :> neighborRoot) @@ @]
  ELSE ReRootBlock([g EXCEPT !.nl[n] = ("nextBlockNode" :> neighbor) @@ @],
                   neighbor, neighbor, n)

\* alignVertically, the body of the loop over neighborIndex (which counts
\* from 0).
AlignMedian(topBias, leftBias, n, nbrs, acc, neighborIndex) ==
  LET g == acc.g
      label == node(g, n)
      neighbor == nbrs[neighborIndex + 1]
      edgeLabel == IF topBias THEN edge(g, neighbor, n) ELSE edge(g, n, neighbor)
      alignmentDoesNotOverlap ==
        IF leftBias THEN acc.previousNeighborIndex < neighborIndex
        ELSE acc.previousNeighborIndex > neighborIndex
  IN  IF g.err THEN acc
      ELSE IF IsUndefined(label) THEN [acc EXCEPT !.g = Throw(@)]
      ELSE IF ~(/\ Has(label, "nextBlockNode")
                /\ label.nextBlockNode = n
                /\ neighborIndex >= 0
                /\ neighborIndex < Len(nbrs)
                /\ neighbor # EMPTY) THEN acc
      ELSE IF IsUndefined(edgeLabel) THEN [acc EXCEPT !.g = Throw(@)]
      ELSE IF ~Flag(edgeLabel, "isConflicted") /\ alignmentDoesNotOverlap
        THEN [g |-> AlignBlocks(g, n, neighbor, topBias),
              previousNeighborIndex |-> neighborIndex]
      ELSE acc

\* alignVertically, the body of the loop over the nodes of the layer with
\* the 1-based index layerIndex.
AlignLayerNode(graphMatrix, layerIndex, topBias, leftBias, acc, n) ==
  LET all == IF topBias THEN predecessors(acc.g, n) ELSE successors(acc.g, n)
      neighborLayerIndex == layerIndex + (IF topBias THEN -1 ELSE 1)
      \* the loop from the one median neighbor to the other
      Align(nbrs) ==
        FoldLeft(LAMBDA a, k : AlignMedian(topBias, leftBias, n, nbrs, a, k),
                 acc,
                 Indices((Len(nbrs) - 1) \div 2, Len(nbrs) \div 2, leftBias))
  IN  IF acc.g.err \/ Len(all) = 0 THEN acc
      ELSE IF neighborLayerIndex \notin DOMAIN graphMatrix THEN [acc EXCEPT !.g = Throw(@)]
      ELSE Align(SelectSeq(graphMatrix[neighborLayerIndex], LAMBDA m : InSeq(all, m)))

\* alignVertically of this version; leftBias stands for the orders that
\* start with "right", topBias for those that end with "down".  The count
\* of the nodes stands for the Infinity previousNeighborIndex starts from.
alignVerticallyByOrder(graph0, graphMatrix, leftBias, topBias) ==
  LET start(g, n) ==
        IF g.err THEN g
        ELSE IF IsUndefined(node(g, n)) THEN Throw(g)
        ELSE IF Flag(node(g, n), "isConjunctNode") THEN g
        ELSE [g EXCEPT !.nl[n] = ("blockRoot" :> n) @@ ("nextBlockNode" :> n) @@ @]
      alignLayer(g, layerIndex) ==
        LET layer == graphMatrix[layerIndex]
            order == SeqMap(LAMBDA j : layer[j], Indices(1, Len(layer), leftBias))
        IN  FoldLeft(LAMBDA acc, n : AlignLayerNode(graphMatrix, layerIndex, topBias,
                                                    leftBias, acc, n),
                     [g |-> g,
                      previousNeighborIndex |-> IF leftBias THEN -1
                                                ELSE nodeCount(graph0)],
                     order).g
  IN  FoldLeft(alignLayer, FoldLeft(start, graph0, graph0.nodes),
               Indices(1, Len(graphMatrix), topBias))

RECURSIVE placeBlockBySize(_, _, _, _, _)
RECURSIVE PlaceBlockBySizeWalk(_, _, _, _, _, _)

\* placeBlock of this version, the do-while loop from currentNode on.
PlaceBlockBySizeWalk(g, graphMatrix, n, leftBias, minNodeSeperation, currentNode) ==
  LET layerIndex == LayerIndexOf(graphMatrix, currentNode)
      layer == graphMatrix[layerIndex]
      nodeIndex == IndexOf(layer, currentNode)
      previousNode == layer[IF leftBias THEN nodeIndex - 1 ELSE nodeIndex + 1]
      previousNodeRoot == node(g, previousNode).blockRoot
      Signed(a) == IF leftBias THEN a ELSE Negate(a)
      \* the if statement on the class sinks, in the graph g2 in which the
      \* class sink of the node is set
      Separate(g2, nodeX, previousNodeX, nodeWidth, previousNodeWidth, previousNodeSink) ==
        IF node(g2, n).classSink # previousNodeSink
          THEN IF ~hasNode(g2, previousNodeSink) THEN Throw(g2)
               ELSE LET seperation ==
                          Minus(Minus(Minus(nodeX, nodeWidth),
                                      Plus(previousNodeX, previousNodeWidth)),
                                minNodeSeperation)
                        xShift == Get(node(g2, previousNodeSink), "xShift")
                    IN  [g2 EXCEPT !.nl[previousNodeSink] =
                           ("xShift" :> IF leftBias
                                          THEN MathMin2(xShift, Signed(seperation))
                                        ELSE MathMax2(xShift, Signed(seperation))) @@ @]
        ELSE LET seperation == Plus(Plus(previousNodeX, previousNodeWidth),
                                    minNodeSeperation)
             IN  [g2 EXCEPT !.nl[n] =
                    ("x" :> IF leftBias THEN MathMax2(nodeX, Signed(seperation))
                            ELSE MathMin2(nodeX, Signed(seperation))) @@ @]
      SeparateIn(g2) ==
        Separate(g2, Get(node(g2, n), "x"), Get(node(g2, previousNodeRoot), "x"),
                 CoordField(node(g2, n), "width"),
                 CoordField(node(g2, previousNodeRoot), "width"),
                 node(g2, previousNodeRoot).classSink)
      \* if (graph.node(node).classSink === node) { ... }, in the graph g1
      \* left by the recursive call
      SetClassSink(g1) ==
        SeparateIn(IF node(g1, n).classSink = n
                     THEN [g1 EXCEPT !.nl[n] =
                             ("classSink" :> node(g1, previousNodeRoot).classSink) @@ @]
                   ELSE g1)
      \* currentNode = graph.node(currentNode).nextBlockNode and the
      \* condition of the loop
      Continue(after, next) ==
        IF after.err \/ next = n THEN after
        ELSE PlaceBlockBySizeWalk(after, graphMatrix, n, leftBias, minNodeSeperation, next)
      ContinueIn(after) ==
        IF after.err THEN after
        ELSE Continue(after, node(after, currentNode).nextBlockNode)
      AfterPlacing(g1) == IF g1.err THEN g1 ELSE ContinueIn(SetClassSink(g1))
  IN  IF layerIndex = 0 THEN Throw(g)
      ELSE IF (leftBias /\ nodeIndex > 1) \/ (~leftBias /\ nodeIndex < Len(layer))
        THEN IF ~hasNode(g, previousNode) THEN Throw(g)
             ELSE AfterPlacing(placeBlockBySize(g, graphMatrix, previousNodeRoot,
                                                leftBias, minNodeSeperation))
      ELSE ContinueIn(g)

\* placeBlock of this version
placeBlockBySize(g, graphMatrix, n, leftBias, minNodeSeperation) ==
  IF g.err THEN g
  ELSE IF ~hasNode(g, n) THEN Throw(g)
  ELSE IF Has(node(g, n), "x") THEN g
  ELSE PlaceBlockBySizeWalk([g EXCEPT !.nl[n] = ("x" :> Num(0)) @@ @], graphMatrix, n,
                            leftBias, minNodeSeperation, n)

\* compactHorizontally of this version, the body of its last loop.
SetXOfBlock(leftBias, g, n) ==
  LET nodeBlockRoot == node(g, n).blockRoot
      nodeClassSink == node(g, nodeBlockRoot).classSink
      rootX == Get(node(g, nodeBlockRoot), "x")
      xShift == Get(node(g, nodeClassSink), "xShift")
      shifts == IF leftBias THEN Less(xShift, Infinity) ELSE Less(NegInfinity, xShift)
  IN  IF g.err THEN g
      ELSE IF ~hasNode(g, nodeBlockRoot) THEN Throw(g)
      ELSE IF ~hasNode(g, nodeClassSink) THEN Throw(g)
      ELSE [g EXCEPT !.nl[n] = ("x" :> IF shifts THEN Plus(rootX, xShift) ELSE rootX) @@ @]

\* compactHorizontally of this version; leftBias stands for the iteration
\* order "right".
compactHorizontallyBySize(graph0, graphMatrix, leftBias, minNodeSeperation) ==
  LET start(g, n) ==
        IF g.err THEN g
        ELSE IF IsUndefined(node(g, n)) THEN Throw(g)
        ELSE [g EXCEPT !.nl[n] =
                ("classSink" :> n)
                  @@ ("xShift" :> IF leftBias THEN Infinity ELSE NegInfinity) @@ @]
      place(g, n) ==
        IF g.err \/ ~Has(node(g, n), "blockRoot") THEN g
        ELSE IF node(g, n).blockRoot # n THEN g
        ELSE placeBlockBySize(g, graphMatrix, n, leftBias, minNodeSeperation)
      SetXs(placed) ==
        FoldLeft(LAMBDA g, n : SetXOfBlock(leftBias, g, n), placed, placed.nodes)
      Place(started) == SetXs(FoldLeft(place, started, started.nodes))
  IN  Place(FoldLeft(start, graph0, graph0.nodes))

\* alignToMinWidthGraph, the extent of a biased graph with the borders of
\* its nodes.
WidthObject(biasedGraph) ==
  LET widen(acc, n) ==
        LET nodeX == Get(node(biasedGraph, n), "x")
            halfWidth == Half(CoordField(node(biasedGraph, n), "width"))
            leftBorderX == Minus(nodeX, halfWidth)
            rightBorderX == Plus(nodeX, halfWidth)
        IN  [minX |-> IF Less(leftBorderX, acc.minX) THEN leftBorderX ELSE acc.minX,
             maxX |-> IF Less(acc.maxX, rightBorderX) THEN rightBorderX ELSE acc.maxX]
      Object(extent) ==
        [width |-> Minus(extent.maxX, extent.minX), minX |-> extent.minX,
         maxX |-> extent.maxX]
  IN  Object(FoldLeft(widen, [minX |-> Infinity, maxX |-> NegInfinity],
                      biasedGraph.nodes))

\* alignToMinWidthGraph: the four biased graphs shifted to the one of the
\* smallest width; minWidthIndex stays -1, and the destructuring throws,
\* when no width is below Infinity.
alignToMinWidthGraph(biasedGraphs) ==
  LET narrower(acc, graphIndex) ==
        IF Less(acc.widthObjects[graphIndex].width, acc.minWidth)
          THEN [acc EXCEPT !.minWidth = acc.widthObjects[graphIndex].width,
                           !.minWidthIndex = graphIndex]
        ELSE acc
      \* the second forEach
      Shift(widthObjects, minWidthIndex) ==
        [graphIndex \in 1..4 |->
           ShiftX(biasedGraphs[graphIndex],
                  IF graphIndex <= 2
                    THEN Minus(widthObjects[minWidthIndex].minX,
                               widthObjects[graphIndex].minX)
                  ELSE Minus(widthObjects[minWidthIndex].maxX,
                             widthObjects[graphIndex].maxX))]
      Aligned(found) ==
        IF found.minWidthIndex = 0 THEN [graphs |-> biasedGraphs, err |-> TRUE]
        ELSE [graphs |-> Shift(found.widthObjects, found.minWidthIndex), err |-> FALSE]
      Find(widthObjects) ==
        Aligned(FoldLeft(narrower, [widthObjects |-> widthObjects, minWidth |-> Infinity,
                                    minWidthIndex |-> 0],
                         <<1, 2, 3, 4>>))
  IN  Find(SeqMap(WidthObject, biasedGraphs))

\* balanceAndAssignValues: graph.graph().width, from the borders of the
\* nodes at their new x.
SetGraphWidth(g) ==
  LET Width(extent) == Minus(extent.maxX, extent.minX)
      Set(width) ==
        IF g.err THEN g
        ELSE IF IsUndefined(g.label) THEN Throw(g)
        ELSE [g EXCEPT !.label = ("width" :> width) @@ @]
  IN  Set(WidthObject(g).width)

\* balanceAndAssignValues, the body of the loop over the conjunct nodes:
\* the children from the left border of the container on.
LayOutChildren(g, conj) ==
  LET place(acc, child) ==
        LET childLabel == node(acc.g, child)
            newNodeX == Plus(acc.x, Half(CoordField(childLabel, "width")))
        IN  IF acc.g.err THEN acc
            ELSE IF IsUndefined(childLabel) THEN [acc EXCEPT !.g = Throw(@)]
            ELSE [g |-> [acc.g EXCEPT !.nl[child] = ("x" :> newNodeX) @@ @],
                  x |-> Plus(Plus(newNodeX, Half(CoordField(childLabel, "width"))),
                             CoordField(acc.g.label, "nodesep"))]
  IN  IF g.err THEN g
      ELSE IF IsUndefined(node(g, conj)) THEN Throw(g)
      ELSE FoldLeft(place,
                    [g |-> g,
                     x |-> Minus(Get(node(g, conj), "x"),
                                 Half(CoordField(node(g, conj), "width")))],
                    children(g, conj)).g

\* ------------------------------------------------------------------------
\* draw-bezier-curves.ts (src/unnamed/part_011)
\* ------------------------------------------------------------------------

\* (1 - t) * a + t * b for t = 0.5
Midway(a, b) == Plus(Half(a), Half(b))

\* drawBezierCurves, the body of the loop over the edges.
DrawBezierCurve(g, e) ==
  LET v == e[1]
      w == e[2]
      numberOfVEdges == Len(nodeEdges(g, v))
      vLabel == node(g, v)
      wLabel == node(g, w)
      controlPoint0 == [x |-> Get(vLabel, "x"), y |-> Get(vLabel, "y")]
      controlPoint1 == [x |-> IF numberOfVEdges > 1 THEN Get(wLabel, "x") ELSE Get(vLabel, "x"),
                        y |-> IF numberOfVEdges > 1 THEN Get(vLabel, "y") ELSE Get(wLabel, "y")]
      controlPoint2 == [x |-> Get(wLabel, "x"), y |-> Get(wLabel, "y")]
      point01 == [x |-> Midway(controlPoint0.x, controlPoint1.x),
                  y |-> Midway(controlPoint0.y, controlPoint1.y)]
      point12 == [x |-> Midway(controlPoint1.x, controlPoint2.x),
                  y |-> Midway(controlPoint1.y, controlPoint2.y)]
      Between(p, q) == [x |-> Midway(p.x, q.x), y |-> Midway(p.y, q.y)]
      connectingLine == Between(point01, point12)
      edgeData == edge(g, v, w)
      \* graph.setEdge(edge, { ...edgeData, points })
      Draw(points) ==
        IF g.err THEN g
        ELSE IF ~hasNode(g, v) \/ IsUndefined(vLabel) \/ IsUndefined(wLabel) THEN Throw(g)
        ELSE IF IsUndefined(edgeData) THEN setEdge(g, v, w, [points |-> points])
        ELSE [g EXCEPT !.el[e] = ("points" :> points) @@ @]
  IN  Draw(<<controlPoint0, connectingLine, controlPoint2>>)

\* drawBezierCurves
drawBezierCurves(g) == FoldLeft(DrawBezierCurve, g, g.edges)

\* ------------------------------------------------------------------------
\* src/src/lay-out-graph.ts: finaliseWarrantPositions, removeDummyNodes
\* ------------------------------------------------------------------------

\* finaliseWarrantPositions: its filter reads a field of every node label.
\* No node carries isWarrantDummySource, so that its loop has no iteration.
finaliseWarrantPositions(g) == IF SomeLabelUndefined(g) THEN Throw(g) ELSE g

\* removeDummyNodes with the middle point of the in edge for the middle
\* point of the joined edge.
newPointsThroughInEdgeMiddle(inEdgePoints, outEdgePoints) ==
  <<inEdgePoints[1], inEdgePoints[2], outEdgePoints[3]>>

\* removeDummyNodes with the in edge's points kept for the joined edge.
newPointsOfInEdge(inEdgePoints, outEdgePoints) == inEdgePoints

\* removeDummyNodes: the points of the edge that replaces a dummy node.
newPoints(inEdgePoints, outEdgePoints) ==
  <<inEdgePoints[1], inEdgePoints[3], outEdgePoints[3]>>

\* removeDummyNodes, the body of the loop over the dummy nodes.
RemoveDummyNode(g, n) ==
  LET preds == predecessors(g, n)
      succs == successors(g, n)
      parentNode == preds[1]
      child == succs[1]
      edgeData == Get(node(g, n), "edgeData")
      inEdge == edge(g, parentNode, n)
      outEdge == edge(g, n, child)
  IN  IF g.err THEN g
      ELSE IF ~hasNode(g, n) \/ Len(preds) = 0 \/ Len(succs) = 0 THEN Throw(g)
      ELSE IF ~Has(inEdge, "points") \/ ~Has(outEdge, "points") THEN Throw(g)
      ELSE setEdge(removeNode(g, n), parentNode, child,
                   Spread(edgeData, [points |-> newPoints(inEdge.points, outEdge.points)]))

\* removeDummyNodes
removeDummyNodes(g) == FoldLeft(RemoveDummyNode, g, FilterNodes(g, "isDummyNode"))

\* ------------------------------------------------------------------------
\* src/src/utils.ts: updateInputGraph.  An exception leaves the caller's
\* graph with what was written before it (err is set on it).
\* ------------------------------------------------------------------------

\* Is a number truthy?
Truthy(a) == ~IsUndefined(a) /\ a.k # "nan" /\ a.v # 0

UpdateInputNode(layoutGraph, g, n) ==
  LET inputLabel == node(g, n)
      layoutLabel == node(layoutGraph, n)
      hasChildren == Len(children(layoutGraph, n)) > 0
      written ==
        [x |-> Get(layoutLabel, "x"), y |-> Get(layoutLabel, "y"),
         width |-> IF hasChildren THEN Get(layoutLabel, "width") ELSE 300,
         height |-> IF hasChildren THEN Get(layoutLabel, "height") ELSE 100]
  IN  IF g.err \/ IsUndefined(inputLabel) THEN g
      ELSE IF IsUndefined(layoutLabel) THEN Throw(g)
      ELSE [g EXCEPT !.nl[n] = written @@ @]

UpdateInputEdge(layoutGraph, g, e) ==
  LET inputLabel == edge(g, e[1], e[2])
      layoutLabel == edge(layoutGraph, e[1], e[2])
      position == IF Has(layoutLabel, "x") /\ Truthy(layoutLabel.x)
                    THEN [x |-> layoutLabel.x, y |-> Get(layoutLabel, "y")]
                  ELSE << >>
  IN  IF g.err THEN g
      ELSE IF IsUndefined(inputLabel) \/ IsUndefined(layoutLabel) THEN Throw(g)
      ELSE [g EXCEPT !.el[e] =
              position @@ ("points" :> Get(layoutLabel, "points")) @@ @]

updateInputGraph(inputGraph0, layoutGraph) ==
  LET g1 == FoldLeft(LAMBDA g, n : UpdateInputNode(layoutGraph, g, n),
                     inputGraph0, inputGraph0.nodes)
      layoutGraphLabel == layoutGraph.label
      \* inputGraph.graph().width = ..., .height = ...
      SetSize(g2) ==
        IF g2.err \/ IsUndefined(g2.label) THEN g2
        ELSE IF IsUndefined(layoutGraphLabel) THEN Throw(g2)
        ELSE [g2 EXCEPT !.label =
                [width |-> Plus(Get(layoutGraphLabel, "width"), Coord(NODE_WIDTH)),
                 height |-> Get(layoutGraphLabel, "height")] @@ @]
  IN  SetSize(FoldLeft(LAMBDA g, e : UpdateInputEdge(layoutGraph, g, e), g1, g1.edges))

\* ------------------------------------------------------------------------
\* Bounds of the model and the inputs drawn within them
\* ------------------------------------------------------------------------

NumNodes == 3       \* caller chosen node names 1..NumNodes
MaxEdges == 4       \* edges of an input graph
StarNodes == 5      \* nodes of a star: every edge has the first node at an end
StarEdges == 3      \* edges of a star

BaseNodes == {Name(n) : n \in 1..NumNodes}

\* The pair with the 0-based index k in the row by row enumeration.
PairAt(k) == <<Name((k \div NumNodes) + 1), Name((k % NumNodes) + 1)>>

\* Sequences of at most MaxEdges pairs in ascending or in descending order of
\* their index: the orders in which a caller may have added the edges.
RECURSIVE MonotoneSeqs(_, _, _)
MonotoneSeqs(lo, hi, n) ==
  IF n = 0 THEN {<< >>}
  ELSE {<< >>} \cup
       UNION {{<<k>> \o rest : rest \in MonotoneSeqs(k + 1, hi, n - 1)} : k \in lo..hi}

Reverse(s) == [i \in DOMAIN s |-> s[Len(s) + 1 - i]]

AscendingEdgeSeqs ==
  {SeqMap(PairAt, q) : q \in MonotoneSeqs(0, NumNodes * NumNodes - 1, MaxEdges)}

EdgeSeqs == AscendingEdgeSeqs \cup {Reverse(es) : es \in AscendingEdgeSeqs}

\* The edges of an undirected graph, each pair named once.
UndirectedEdgeSeqs == {es \in AscendingEdgeSeqs : \A i \in DOMAIN es : es[i][1][1] <= es[i][2][1]}

\* The edge with the 0-based index k of a star: out of the first node to
\* another one, or into it.
StarEdgeAt(k) ==
  IF k % 2 = 0 THEN <<Name(1), Name((k \div 2) + 2)>>
  ELSE <<Name((k \div 2) + 2), Name(1)>>

StarEdgeSeqs ==
  {SeqMap(StarEdgeAt, q) : q \in MonotoneSeqs(0, 2 * (StarNodes - 1) - 1, StarEdges)}

PathNodes == 4      \* nodes of a path with an edge from its first node to its last

\* The path 1 -> 2 -> ... -> PathNodes and the edge from 1 to PathNodes,
\* which spans PathNodes - 1 ranks, added after the path or before it.
PathEdgeSeqs ==
  LET path == [i \in 1..(PathNodes - 1) |-> <<Name(i), Name(i + 1)>>]
      long == <<Name(1), Name(PathNodes)>>
  IN  {Append(path, long), <<long>> \o path}

\* The caller's graph with an empty graph label, plain nodes and edges; each
\* edge carries its own attribute (text) so that labels can be told apart.
PlainGraphOf(numNodes, es, directed) ==
  LET g0 == [NewGraph(Undefined) EXCEPT !.label = << >>, !.directed = directed]
      g1 == FoldLeft(LAMBDA acc, n : setNode(acc, Name(n), [width |-> 300, height |-> 100]),
                     g0, [i \in 1..numNodes |-> i])
  IN  FoldLeft(LAMBDA acc, i : setEdge(acc, es[i][1], es[i][2], [text |-> i]),
               g1, [i \in 1..Len(es) |-> i])

PlainGraph(es, directed) == PlainGraphOf(NumNodes, es, directed)

\* The argument maps made of a plain graph by one call of the Graph API on
\* its first edge: a warrant from the last node, or a conjunct with it.
Structured(es) ==
  IF Len(es) = 0 THEN {}
  ELSE LET plain == PlainGraph(es, TRUE)
           e == es[1]
           n == Name(NumNodes)
       IN  {setWarrantEdge(plain, n, e[1], e[2], [text |-> 0])}
           \cup (IF e[1] = e[2] THEN {} ELSE {setConjunctNode(plain, n, e[1], e[2])})

\* ------------------------------------------------------------------------
\* State
\* ------------------------------------------------------------------------

VARIABLES
  pc,           \* the position of the running operation
  given,        \* the caller's graph as it was passed
  inputGraph,   \* the caller's graph
  graph,        \* the layout graph all phases work on
  rc,           \* removeCycles: graphCopy, nodes0, nodes1, the edges still to
                \* handle, deletedLoops, reversedEdges, and what is to restore
  ranks,        \* layerNodes: the rank table
  tree,         \* layerNodes: the spanning tree of the network simplex
  ln,           \* layerNodes: conjunctNodes, the nodes setRanks has still to
                \* rank, the edge iterator (index, lastEdge), loopCount
  mc,           \* minimiseCrossings: constraintGraph, crossingCount, loopCount
  graphMatrix,  \* the layers, each a list of nodes from left to right
  se,           \* straightenEdges that reads the widths: the four biased graphs,
                \* the index of the one to align next, conjunctNodes, and the
                \* node properties its structural copies carry
  call          \* the method of Graph called last on graph, with its arguments

vars == <<pc, given, inputGraph, graph, rc, ranks, tree, ln, mc, graphMatrix, se, call>>

caller == <<given, inputGraph>>
layering == <<ranks, tree, ln>>
ordering == <<mc, graphMatrix>>

\* No method of Graph has been called by the caller.
NoCall == [method |-> "", args |-> << >>, count |-> 0]

NoSe ==
  [biasedGraphs |-> << >>, graphIndex |-> 0, conjunctNodes |-> << >>,
   nodeProperties |-> << >>]

NoLn ==
  [conjunctNodes |-> << >>, nodes |-> << >>, index |-> 0, lastEdge |-> << >>,
   loopCount |-> 0]

NoMc ==
  [constraintGraph |-> NewGraph(Undefined), crossingCount |-> 0, loopCount |-> 0,
   sweep |-> 0]

NoRc ==
  [graphCopy |-> NewGraph(<< >>), nodes0 |-> << >>, nodes1 |-> << >>,
   phase |-> "sinks", todo |-> << >>, deletedLoops |-> << >>,
   reversedEdges |-> << >>, restoreLoops |-> << >>, restoreReversed |-> << >>]

\* ------------------------------------------------------------------------
\* src/src/remove-cycles.ts
\* ------------------------------------------------------------------------

\* getMaxNode: the first node of maximal outdegree - indegree.
getMaxNode(g) ==
  LET degree(n) == Len(outEdges(g, n)) - Len(inEdges(g, n))
      better(best, n) == IF best = GRAPH_NODE \/ degree(n) > degree(best) THEN n ELSE best
  IN  FoldLeft(better, GRAPH_NODE, g.nodes)

\* removeCycles, first half: the structural copy the greedy ordering consumes.
RemoveCyclesStart ==
  /\ pc = "removeCycles"
  /\ rc' = [NoRc EXCEPT !.graphCopy = buildSimpleGraph(graph)]
  /\ pc' = "greedilyGetFS"
  /\ UNCHANGED <<caller, graph, layering, ordering, se, call>>

\* greedilyGetFS: the position in the loop body is rc.phase.
GreedyAfter(copy, nodes0, nodes1, phase) ==
  /\ rc' = [rc EXCEPT !.graphCopy = copy, !.nodes0 = nodes0, !.nodes1 = nodes1,
                      !.phase = phase]
  /\ pc' = IF copy.err THEN "crash" ELSE "greedilyGetFS"
  /\ UNCHANGED <<caller, graph, layering, ordering, se, call>>

GreedyRemoveSink ==
  /\ pc = "greedilyGetFS"
  /\ rc.phase = "sinks"
  /\ Len(sinks(rc.graphCopy)) > 0
  /\ LET sink == sinks(rc.graphCopy)[1]
     IN  GreedyAfter(removeNode(rc.graphCopy, sink), rc.nodes0,
                     Append(rc.nodes1, sink), "sinks")

GreedyRemoveSource ==
  /\ pc = "greedilyGetFS"
  /\ rc.phase = "sinks" => Len(sinks(rc.graphCopy)) = 0
  /\ Len(sources(rc.graphCopy)) > 0
  /\ LET source == sources(rc.graphCopy)[1]
     IN  GreedyAfter(removeNode(rc.graphCopy, source), Append(rc.nodes0, source),
                     rc.nodes1, "sources")

GreedyRemoveMaxNode ==
  /\ pc = "greedilyGetFS"
  /\ rc.phase = "sinks" => Len(sinks(rc.graphCopy)) = 0
  /\ Len(sources(rc.graphCopy)) = 0
  /\ nodeCount(rc.graphCopy) > 0
  /\ LET maxNode == getMaxNode(rc.graphCopy)
     IN  GreedyAfter(removeNode(rc.graphCopy, maxNode), Append(rc.nodes0, maxNode),
                     rc.nodes1, "sinks")

\* handleEdges starts on a snapshot of the edges once the copy is empty.
HandleEdgesStart ==
  /\ pc = "greedilyGetFS"
  /\ nodeCount(rc.graphCopy) = 0
  /\ rc' = [rc EXCEPT !.todo = graph.edges]
  /\ pc' = "handleEdges"
  /\ UNCHANGED <<caller, graph, layering, ordering, se, call>>

\* reverseEdge's test, were nodes0 followed by nodes1 taken for the linear
\* order as the lists stand: the edge goes from a later node to an earlier.
IsFeedbackByPosition(nodes0, nodes1, v, w) ==
  IndexOf(nodes0 \o nodes1, v) > IndexOf(nodes0 \o nodes1, w)

\* reverseEdge's test: the edge goes from nodes1 to nodes0.
IsFeedback(nodes0, nodes1, v, w) == InSeq(nodes1, v) /\ InSeq(nodes0, w)

\* The record of a modified edge taken after the modification: the endpoints
\* of the inverted edge.
OriginalEdgeTakenLate(g, v, w) == [v |-> w, w |-> v, label |-> edge(g, v, w)]

\* const originalEdge = { ...edge, label: graph.edge(edge) }
OriginalEdge(g, v, w) == [v |-> v, w |-> w, label |-> edge(g, v, w)]

\* One iteration of the loop of handleEdges: deleteLoop, else reverseEdge.
HandleEdge ==
  /\ pc = "handleEdges"
  /\ Len(rc.todo) > 0
  /\ LET v == Head(rc.todo)[1]
         w == Head(rc.todo)[2]
         Reversed(originalEdge, reversed) ==
           /\ graph' = reversed
           /\ rc' = [rc EXCEPT !.todo = Tail(@),
                               !.reversedEdges =
                                 IF reversed.err THEN @ ELSE Append(@, originalEdge)]
           /\ pc' = IF reversed.err THEN "crash" ELSE "handleEdges"
         Removed(originalEdge, removed) ==
           IF v = w THEN
             /\ graph' = removed
             /\ rc' = [rc EXCEPT !.todo = Tail(@),
                                 !.deletedLoops =
                                   IF removed.err THEN @ ELSE Append(@, originalEdge)]
             /\ pc' = IF removed.err THEN "crash" ELSE "handleEdges"
           ELSE IF IsFeedback(rc.nodes0, rc.nodes1, v, w) THEN
             Reversed(originalEdge, setEdge(removed, w, v, originalEdge.label))
           ELSE
             /\ rc' = [rc EXCEPT !.todo = Tail(@)]
             /\ UNCHANGED <<graph, pc>>
     IN  Removed(OriginalEdge(graph, v, w), removeEdge(graph, v, w))
  /\ UNCHANGED <<caller, layering, ordering, se, call>>

\* removeCycles returns { deletedLoops, reversedEdges }.
RemoveCyclesReturn ==
  /\ pc = "handleEdges"
  /\ Len(rc.todo) = 0
  /\ rc' = [rc EXCEPT !.restoreLoops = rc.deletedLoops,
                      !.restoreReversed = rc.reversedEdges]
  /\ pc' = "removedCycles"
  /\ UNCHANGED <<caller, graph, layering, ordering, se, call>>

\* ------------------------------------------------------------------------
\* src/src/lay-out-graph.ts: restoreEdges
\* ------------------------------------------------------------------------

RestoreLoop ==
  /\ pc = "restoreEdges"
  /\ Len(rc.restoreLoops) > 0
  /\ LET e == Head(rc.restoreLoops)
         restored == setEdge(graph, e.v, e.w, e.label)
     IN  /\ graph' = restored
         /\ pc' = IF restored.err THEN "crash" ELSE pc
  /\ rc' = [rc EXCEPT !.restoreLoops = Tail(@)]
  /\ UNCHANGED <<caller, layering, ordering, se, call>>

RestoreReversed ==
  /\ pc = "restoreEdges"
  /\ Len(rc.restoreLoops) = 0
  /\ Len(rc.restoreReversed) > 0
  /\ LET e == Head(rc.restoreReversed)
         edgeData == edge(graph, e.w, e.v)
     IN  \E restored \in {setEdge(removeEdge(graph, e.w, e.v), e.v, e.w,
                                  Spread(e.label, edgeData))} :
           /\ graph' = restored
           /\ pc' = IF restored.err THEN "crash" ELSE pc
  /\ rc' = [rc EXCEPT !.restoreReversed = Tail(@)]
  /\ UNCHANGED <<caller, layering, ordering, se, call>>

RestoreEdgesReturn ==
  /\ pc = "restoreEdges"
  /\ Len(rc.restoreLoops) = 0
  /\ Len(rc.restoreReversed) = 0
  /\ pc' = "restoredEdges"
  /\ UNCHANGED <<caller, graph, rc, layering, ordering, se, call>>

\* ------------------------------------------------------------------------
\* Cycle removal followed directly by the restoration of its edges
\* ------------------------------------------------------------------------

RestoreAfterRemoveCycles ==
  /\ pc = "removedCycles"
  /\ pc' = "restoreEdges"
  /\ UNCHANGED <<caller, graph, rc, layering, ordering, se, call>>

InitRC ==
  /\ \/ \E es \in EdgeSeqs : inputGraph = PlainGraph(es, TRUE)
     \/ \E es \in AscendingEdgeSeqs : inputGraph \in Structured(es)
  /\ given = inputGraph
  /\ graph = buildLayoutGraph(inputGraph)
  /\ rc = NoRc
  /\ ranks = NewRankTable
  /\ tree = NewGraph(Undefined)
  /\ ln = NoLn
  /\ mc = NoMc
  /\ graphMatrix = << >>
  /\ se = NoSe
  /\ call = NoCall
  /\ pc = "removeCycles"

NextRC ==
  \/ RemoveCyclesStart
  \/ GreedyRemoveSink
  \/ GreedyRemoveSource
  \/ GreedyRemoveMaxNode
  \/ HandleEdgesStart
  \/ HandleEdge
  \/ RemoveCyclesReturn
  \/ RestoreAfterRemoveCycles
  \/ RestoreLoop
  \/ RestoreReversed
  \/ RestoreEdgesReturn

SpecRC == InitRC /\ [][NextRC]_vars

\* ------------------------------------------------------------------------
\* src/src/lay-out-graph.ts: layOutGraph, one action per phase.  A phase
\* that throws ends the call (crash); a loop that runs an iteration which
\* changes nothing while its condition holds never ends (hang).
\* ------------------------------------------------------------------------

\* The guard and buildLayoutGraph.
LayOutGraphStart ==
  /\ pc = "layOutGraph"
  /\ IF ~isDirected(inputGraph)
       THEN /\ pc' = "threw"
            /\ UNCHANGED graph
       ELSE /\ graph' = buildLayoutGraph(inputGraph)
            /\ pc' = IF graph'.err THEN "crash" ELSE "removeCycles"
  /\ UNCHANGED <<caller, rc, layering, ordering, se, call>>

\* layerNodes: mergeConjunctNodes, mergeRelevanceStructures (whose filter
\* reads every node label) and the start of setRanks.
LayerNodesStart ==
  /\ pc = "removedCycles"
  /\ \E merged \in {mergeConjunctNodes(graph)} :
       /\ graph' = merged
       /\ ln' = [NoLn EXCEPT !.conjunctNodes = FilterNodes(graph, "isConjunctNode"),
                            !.nodes = merged.nodes]
       /\ pc' = IF merged.err \/ SomeLabelUndefined(merged) THEN "crash" ELSE "setRanks"
  /\ ranks' = NewRankTable
  /\ UNCHANGED <<caller, rc, tree, ordering, se, call>>

\* setRanks, one run of its for loop.  A run that ranks no node leaves the
\* list as it was, and so does every run after it.
SetRanksPass ==
  /\ pc = "setRanks"
  /\ Len(ln.nodes) > 0
  /\ \E pass \in {SetRanksFrom(graph, ln.nodes, ranks, 1)} :
       /\ ranks' = pass.ranks
       /\ ln' = [ln EXCEPT !.nodes = pass.nodes]
       /\ pc' = IF pass.err THEN "crash"
                ELSE IF pass.nodes = ln.nodes THEN "hang"
                ELSE "setRanks"
  /\ UNCHANGED <<caller, graph, rc, tree, ordering, se, call>>

\* getFeasibleTree: getTightTree and the early return.
GetTightTree ==
  /\ pc = "setRanks"
  /\ Len(ln.nodes) = 0
  /\ tree' = getTightTree(graph, ranks)
  /\ pc' = IF tree'.err THEN "crash"
           ELSE IF edgeCount(graph) = 0 THEN "rankingLoop"
           ELSE "getFeasibleTree"
  /\ UNCHANGED <<caller, graph, rc, ranks, ln, ordering, se, call>>

\* getFeasibleTree, one iteration of its while loop.
FeasibleTreeGrow ==
  /\ pc = "getFeasibleTree"
  /\ nodeCount(tree) < nodeCount(graph)
  /\ \E grown \in {GrowFeasibleTree(graph, tree, ranks)} :
       /\ tree' = grown.tree
       /\ ranks' = grown.ranks
       /\ pc' = IF grown.err \/ grown.tree.err THEN "crash"
                ELSE IF grown.tree = tree /\ grown.ranks = ranks THEN "hang"
                ELSE "getFeasibleTree"
  /\ UNCHANGED <<caller, graph, rc, ln, ordering, se, call>>

\* getFeasibleTree: setCutValues once the tree spans the graph.
SetCutValues ==
  /\ pc = "getFeasibleTree"
  /\ ~(nodeCount(tree) < nodeCount(graph))
  /\ \E cut \in {setCutValues(graph, tree)} :
       /\ graph' = cut.gt.graph
       /\ tree' = cut.gt.tree
       /\ pc' = IF cut.err THEN "crash" ELSE "rankingLoop"
  /\ UNCHANGED <<caller, rc, ranks, ln, ordering, se, call>>

\* The condition of the while loop of layerNodes.
EntersRankingLoop(it) ==
  it.hasNext /\ BelowLoopLimit(graph, ln.loopCount, "maxrankingloops")

\* layerNodes, one iteration of its while loop: the exchange of a tree edge
\* of negative cut value for the edge getNontreeMinSlackEdge returns.
RankingExchange ==
  /\ pc = "rankingLoop"
  /\ \E it \in {hasNext(tree, ln.index, ln.lastEdge)} :
       /\ ~it.err
       /\ EntersRankingLoop(it)
       /\ \E treeEdge \in {tree.edges[it.index + 1]} :
            /\ ln' = [ln EXCEPT !.index = it.index, !.lastEdge = <<treeEdge>>,
                                !.loopCount = @ + 1]
            /\ \E nontreeEdge \in {getNontreeMinSlackEdge(graph, tree, ranks, treeEdge)} :
                 IF Len(nontreeEdge) = 0 THEN
                   /\ pc' = "rankingLoop"
                   /\ UNCHANGED <<graph, tree, ranks>>
                 ELSE
                   \E updated \in {updateTreeValues(
                                     graph,
                                     setEdge(removeEdge(tree, treeEdge[1], treeEdge[2]),
                                             nontreeEdge[1][1], nontreeEdge[1][2],
                                             edge(graph, nontreeEdge[1][1], nontreeEdge[1][2])),
                                     ranks, nontreeEdge[1])} :
                     /\ graph' = updated.gt.graph
                     /\ tree' = updated.gt.tree
                     /\ ranks' = updated.ranks
                     /\ pc' = IF updated.err THEN "crash"
                              ELSE IF updated.hang THEN "hang"
                              ELSE "rankingLoop"
  /\ UNCHANGED <<caller, rc, ordering, se, call>>

\* layerNodes from the end of its while loop: normalizeRanks,
\* balanceLayering, splitRelevanceStructures (which returns at once on the
\* empty list), splitConjunctNodes, setYCoordinates.
LayerNodesFinish ==
  /\ pc = "rankingLoop"
  /\ \E it \in {hasNext(tree, ln.index, ln.lastEdge)} :
       /\ it.err \/ ~EntersRankingLoop(it)
       /\ ln' = [ln EXCEPT !.index = it.index]
       /\ IF it.err THEN
            /\ pc' = "crash"
            /\ UNCHANGED <<graph, ranks>>
          ELSE
            \E balanced \in {balanceLayering(graph, normalizeRanks(graph, ranks))} :
              IF balanced.err THEN
                /\ pc' = "crash"
                /\ ranks' = balanced.ranks
                /\ UNCHANGED graph
              ELSE
                \E split \in {splitConjunctNodes(graph, balanced.ranks,
                                                 ln.conjunctNodes)} :
                  \E placed \in {IF split.err THEN split.g
                                 ELSE setYCoordinates(split.g, split.ranks)} :
                    /\ ranks' = split.ranks
                    /\ graph' = placed
                    /\ pc' = IF split.err \/ placed.err THEN "crash"
                             ELSE "layeredNodes"
  /\ UNCHANGED <<caller, rc, tree, ordering, se, call>>

\* minimiseCrossings up to its while loop: preprocessDataStructures,
\* readRankTable, countTotalCrossings.
PreprocessDataStructures ==
  /\ pc = "layeredNodes"
  /\ \E pre \in {preprocessDataStructures(graph, ranks)} :
       /\ graph' = pre.g
       /\ ranks' = pre.ranks
       /\ IF pre.err THEN
            /\ pc' = "crash"
            /\ UNCHANGED ordering
          ELSE
            \E matrix \in {readRankTable(pre.ranks)} :
              /\ pc' = "crossingLoop"
              /\ graphMatrix' = matrix
              /\ mc' = [constraintGraph |-> pre.constraintGraph,
                        crossingCount |-> countTotalCrossings(pre.g, matrix),
                        loopCount |-> 0,
                        sweep |-> 0]
  /\ UNCHANGED <<caller, rc, tree, ln, se, call>>

\* The condition of the while loop of minimiseCrossings.
EntersCrossingLoop ==
  mc.crossingCount > 0 /\ BelowLoopLimit(graph, mc.loopCount, "maxcrossingloops")

\* minimiseCrossings returns the matrix.
MinimiseCrossingsReturn ==
  /\ pc = "crossingLoop"
  /\ ~EntersCrossingLoop
  /\ pc' = "minimisedCrossings"
  /\ UNCHANGED <<caller, graph, rc, layering, ordering, se, call>>

\* minimiseCrossings enters the body of its while loop.
SortLayersStart ==
  /\ pc = "crossingLoop"
  /\ EntersCrossingLoop
  /\ mc' = [mc EXCEPT !.loopCount = @ + 1, !.sweep = 0]
  /\ pc' = "sortLayers"
  /\ UNCHANGED <<caller, graph, rc, layering, graphMatrix, se, call>>

\* sortLayers calls sweepLayer once for every layer but the first from the
\* top down and then once for every layer but the last from the bottom up:
\* the direction of the call after sweep calls, and the place in the matrix
\* of the north layer it is given.
SweepDirection(sweep) == IF sweep < Len(graphMatrix) - 1 THEN "down" ELSE "up"

SweepNorthIndex(sweep) ==
  IF sweep < Len(graphMatrix) - 1 THEN sweep + 1 ELSE 2 * (Len(graphMatrix) - 1) - sweep

\* sortLayers, one iteration of one of its loops: graphMatrix[layerIndex] =
\* sweepLayer(...)
SweepLayer ==
  /\ pc = "sortLayers"
  /\ mc.sweep < 2 * (Len(graphMatrix) - 1)
  /\ \E direction \in {SweepDirection(mc.sweep)} :
       \E north \in {SweepNorthIndex(mc.sweep)} :
         \E swept \in sweepLayer(graph, mc.constraintGraph, graphMatrix[north],
                                 graphMatrix[north + 1], direction) :
           /\ graphMatrix' =
                IF swept.err \/ swept.hang THEN graphMatrix
                ELSE [graphMatrix EXCEPT ![IF direction = "down" THEN north + 1 ELSE north] =
                                           swept.layer]
           /\ pc' = IF swept.err THEN "crash"
                    ELSE IF swept.hang THEN "hang"
                    ELSE "sortLayers"
  /\ mc' = [mc EXCEPT !.sweep = @ + 1]
  /\ UNCHANGED <<caller, graph, rc, layering, se, call>>

\* minimiseCrossings, the end of the body of its while loop: the loop is
\* left, and the matrix returned as sortLayers leaves it, when the count of
\* the crossings has not gone down.
SortLayersReturn ==
  /\ pc = "sortLayers"
  /\ mc.sweep = 2 * (Len(graphMatrix) - 1)
  /\ \E newCrossingCount \in {countTotalCrossings(graph, graphMatrix)} :
       IF newCrossingCount >= mc.crossingCount THEN
         /\ pc' = "minimisedCrossings"
         /\ mc' = [mc EXCEPT !.sweep = 0]
       ELSE
         /\ pc' = "crossingLoop"
         /\ mc' = [mc EXCEPT !.crossingCount = newCrossingCount, !.sweep = 0]
  /\ UNCHANGED <<caller, graph, rc, layering, graphMatrix, se, call>>

\* The first of the biased copies, in the order the program compacts them,
\* whose compaction does not end well; 0 when all of them do.
FirstFailure(compacted) ==
  IF \E i \in 1..4 : compacted[i].hang \/ compacted[i].g.err
    THEN CHOOSE i \in 1..4 :
           /\ compacted[i].hang \/ compacted[i].g.err
           /\ \A j \in 1..(i - 1) : ~(compacted[j].hang \/ compacted[j].g.err)
  ELSE 0

\* straightenEdges, its last loop: the graphs in which every node has been
\* given one of the values its x can take.
RECURSIVE AssignXs(_, _, _)
AssignXs(g, nodes, biasedGraphs) ==
  IF Len(nodes) = 0 \/ g.err THEN {g}
  ELSE
    LET n == Head(nodes)
        biasedNodes == [i \in 1..4 |-> ToNumber(Get(node(biasedGraphs[i], n), "x"))]
    IN  IF IsUndefined(node(g, n)) THEN {Throw(g)}
        ELSE UNION {AssignXs([g EXCEPT !.nl[n] = ("x" :> newNodeX) @@ @],
                             Tail(nodes), biasedGraphs) :
                      newNodeX \in NewNodeXs(biasedNodes)}

\* straightenEdges
StraightenEdges ==
  /\ pc = "minimisedCrossings"
  /\ \E marked \in {markConflicts(buildSimpleGraph(graph), graphMatrix)} :
       \E aligned \in {<<alignVertically(marked, graphMatrix, TRUE, TRUE),
                          alignVertically(marked, graphMatrix, FALSE, TRUE),
                          alignVertically(marked, graphMatrix, TRUE, FALSE),
                          alignVertically(marked, graphMatrix, FALSE, FALSE)>>} :
         IF \E i \in 1..4 : aligned[i].err THEN
           /\ pc' = "crash"
           /\ UNCHANGED graph
         ELSE
           \E compacted \in {[i \in 1..4 |->
                                compactHorizontally(aligned[i], graphMatrix, Coord(5))]} :
             \E failure \in {FirstFailure(compacted)} :
               IF failure # 0 THEN
                 /\ pc' = IF compacted[failure].hang THEN "hang" ELSE "crash"
                 /\ UNCHANGED graph
               ELSE
                 \E shifted \in {AlignedBiasedGraphs([i \in 1..4 |-> compacted[i].g])} :
                   IF shifted.err THEN
                     /\ pc' = "crash"
                     /\ UNCHANGED graph
                   ELSE
                     \E laidOut \in AssignXs(graph, graph.nodes, shifted.graphs) :
                       /\ graph' = laidOut
                       /\ pc' = IF laidOut.err THEN "crash" ELSE "restoreEdges"
  /\ UNCHANGED <<caller, rc, layering, ordering, se, call>>

\* finaliseWarrantPositions
FinaliseWarrantPositions ==
  /\ pc = "restoredEdges"
  /\ graph' = finaliseWarrantPositions(graph)
  /\ pc' = IF graph'.err THEN "crash" ELSE "finalisedWarrantPositions"
  /\ UNCHANGED <<caller, rc, layering, ordering, se, call>>

\* drawBezierCurves
DrawBezierCurves ==
  /\ pc = "finalisedWarrantPositions"
  /\ graph' = drawBezierCurves(graph)
  /\ pc' = IF graph'.err THEN "crash" ELSE "drewBezierCurves"
  /\ UNCHANGED <<caller, rc, layering, ordering, se, call>>

\* removeDummyNodes, were it run on the caller's graph as well.
RemoveDummyNodesOfCallerGraph ==
  /\ pc = "drewBezierCurves"
  /\ graph' = removeDummyNodes(graph)
  /\ inputGraph' = [removeDummyNodes(graph) EXCEPT !.err = FALSE]
  /\ pc' = IF graph'.err THEN "crash" ELSE "removedDummyNodes"
  /\ UNCHANGED <<given, rc, layering, ordering, se, call>>

\* removeDummyNodes
RemoveDummyNodes ==
  /\ pc = "drewBezierCurves"
  /\ graph' = removeDummyNodes(graph)
  /\ pc' = IF graph'.err THEN "crash" ELSE "removedDummyNodes"
  /\ UNCHANGED <<caller, rc, layering, ordering, se, call>>

\* updateInputGraph, the only phase that writes to the caller's graph.
UpdateInputGraph ==
  /\ pc = "removedDummyNodes"
  /\ \E updated \in {updateInputGraph(inputGraph, graph)} :
       /\ inputGraph' = [updated EXCEPT !.err = FALSE]
       /\ pc' = IF updated.err THEN "crash" ELSE "done"
  /\ UNCHANGED <<given, graph, rc, layering, ordering, se, call>>

InitLO ==
  /\ \/ \E es \in EdgeSeqs : given = PlainGraph(es, TRUE)
     \/ \E es \in AscendingEdgeSeqs : given \in Structured(es)
     \/ \E es \in UndirectedEdgeSeqs : given = PlainGraph(es, FALSE)
     \/ \E es \in StarEdgeSeqs : given = PlainGraphOf(StarNodes, es, TRUE)
     \/ given = PlainGraphOf(0, << >>, TRUE)
     \/ \E es \in PathEdgeSeqs : given = PlainGraphOf(PathNodes, es, TRUE)
  /\ inputGraph = given
  /\ graph = NewGraph(Undefined)
  /\ rc = NoRc
  /\ ranks = NewRankTable
  /\ tree = NewGraph(Undefined)
  /\ ln = NoLn
  /\ mc = NoMc
  /\ graphMatrix = << >>
  /\ se = NoSe
  /\ call = NoCall
  /\ pc = "layOutGraph"

NextLO ==
  \/ LayOutGraphStart
  \/ RemoveCyclesStart
  \/ GreedyRemoveSink
  \/ GreedyRemoveSource
  \/ GreedyRemoveMaxNode
  \/ HandleEdgesStart
  \/ HandleEdge
  \/ RemoveCyclesReturn
  \/ LayerNodesStart
  \/ SetRanksPass
  \/ GetTightTree
  \/ FeasibleTreeGrow
  \/ SetCutValues
  \/ LayerNodesFinish
  \/ PreprocessDataStructures
  \/ MinimiseCrossingsReturn
  \/ StraightenEdges
  \/ RestoreLoop
  \/ RestoreReversed
  \/ RestoreEdgesReturn
  \/ FinaliseWarrantPositions
  \/ DrawBezierCurves
  \/ RemoveDummyNodes
  \/ UpdateInputGraph

SpecLO == InitLO /\ [][NextLO]_vars

\* ------------------------------------------------------------------------
\* straightenEdges in the version that reads the widths (src/unnamed/
\* part_021), run on layered graphs and at the end of the phases of
\* layOutGraph that come before it
\* ------------------------------------------------------------------------

LayeredNodes == 4   \* nodes of a layered graph
LayeredEdges == 3   \* edges of a layered graph

\* The widths a node of a layered graph may have.
WidthChoices == {100, 200}

\* The widths of n nodes: all of them alike, or one of them unlike the
\* first.
WidthSeqs(n) ==
  {widths \in [1..n -> WidthChoices] :
     Cardinality({i \in 1..n : widths[i] # widths[1]}) <= 1}

\* The node properties a structural copy may carry: the call names edge
\* properties only, the copy that carries the widths as well is the one
\* the arithmetic of placeBlock needs.
NodePropertyChoices == {<< >>, <<"width">>}

\* The ways to cut the nodes first..last, in their order, into layers.
RECURSIVE Layerings(_, _)
Layerings(first, last) ==
  IF first > last THEN {<< >>}
  ELSE UNION {{<<[k \in 1..(cut - first + 1) |-> Name(first + k - 1)]>> \o rest :
                 rest \in Layerings(cut + 1, last)} : cut \in first..last}

\* At most LayeredEdges edges, each from a layer to the next, in ascending
\* order.
LayeredEdgeSeqs(matrix, n) ==
  {es \in {SeqMap(LAMBDA k : <<Name((k \div n) + 1), Name((k % n) + 1)>>, q) :
             q \in MonotoneSeqs(0, n * n - 1, LayeredEdges)} :
     \A i \in DOMAIN es :
       LayerIndexOf(matrix, es[i][2]) = LayerIndexOf(matrix, es[i][1]) + 1}

\* A layout graph as buildLayoutGraph makes it, with nodes of the given
\* widths.
LayeredGraph(widths, es) ==
  LET g0 == [NewGraph(Undefined) EXCEPT !.label = GRAPH_DEFAULTS]
      g1 == FoldLeft(LAMBDA acc, n : setNode(acc, Name(n), [width |-> widths[n], height |-> 0]),
                     g0, [i \in DOMAIN widths |-> i])
  IN  FoldLeft(LAMBDA acc, e : setEdge(acc, e[1], e[2], EDGE_DEFAULTS), g1, es)

\* straightenEdges up to the four biased graphs.
PrepareBiasedGraphs ==
  /\ pc = "minimisedCrossings"
  /\ \E merged \in {mergeConjunctNodes(restoreConjunctNodes(graph, graphMatrix))} :
       \E marked \in {IF merged.err THEN merged
                      ELSE markConflictsInPlace(merged, graphMatrix)} :
         \E biasedGraph \in {buildSimpleGraphCarrying(marked, se.nodeProperties,
                                                      REQUIRED_PROPERTIES.edgeProperties)} :
           /\ graph' = marked
           /\ se' = [se EXCEPT !.conjunctNodes = FilterNodes(graph, "isConjunctNode"),
                               !.biasedGraphs = IF marked.err THEN << >>
                                                ELSE [i \in 1..4 |-> biasedGraph],
                               !.graphIndex = 0]
           /\ pc' = IF marked.err THEN "crash" ELSE "alignVertically"
  /\ UNCHANGED <<caller, rc, layering, mc, graphMatrix, call>>

\* ITERATION_ORDERS[graphIndex] starts with "right"
IsLeftBiased(graphIndex) == graphIndex < 2

\* ITERATION_ORDERS[graphIndex] ends with "down"
IsTopBiased(graphIndex) == graphIndex % 2 = 0

\* straightenEdges, the body of biasedGraphs.forEach
AlignAndCompact ==
  /\ pc = "alignVertically"
  /\ \E aligned \in {alignVerticallyByOrder(se.biasedGraphs[se.graphIndex + 1], graphMatrix,
                                            IsLeftBiased(se.graphIndex),
                                            IsTopBiased(se.graphIndex))} :
       \E compacted \in {IF aligned.err \/ IsUndefined(graph.label) THEN Throw(aligned)
                         ELSE compactHorizontallyBySize(aligned, graphMatrix,
                                                        IsLeftBiased(se.graphIndex),
                                                        CoordField(graph.label, "nodesep"))} :
         /\ se' = [se EXCEPT !.biasedGraphs[se.graphIndex + 1] = compacted,
                             !.graphIndex = @ + 1]
         /\ pc' = IF compacted.err THEN "crash"
                  ELSE IF se.graphIndex = 3 THEN "alignToMinWidthGraph"
                  ELSE "alignVertically"
  /\ UNCHANGED <<caller, graph, rc, layering, mc, graphMatrix, call>>

\* straightenEdges, its call of alignToMinWidthGraph
AlignToMinWidthGraph ==
  /\ pc = "alignToMinWidthGraph"
  /\ \E shifted \in {alignToMinWidthGraph(se.biasedGraphs)} :
       /\ se' = [se EXCEPT !.biasedGraphs = shifted.graphs]
       /\ pc' = IF shifted.err THEN "crash" ELSE "balanceAndAssignValues"
  /\ UNCHANGED <<caller, graph, rc, layering, mc, graphMatrix, call>>

\* straightenEdges, its call of balanceAndAssignValues
BalanceAndAssignValues ==
  /\ pc = "balanceAndAssignValues"
  /\ \E assigned \in AssignXs(graph, graph.nodes, se.biasedGraphs) :
       \E split \in {splitConjunctNodes(SetGraphWidth(assigned), NewRankTable,
                                        se.conjunctNodes)} :
         \E laidOut \in {IF split.err THEN Throw(split.g)
                         ELSE FoldLeft(LayOutChildren, split.g, se.conjunctNodes)} :
           /\ graph' = laidOut
           /\ pc' = IF laidOut.err THEN "crash" ELSE "straightenedEdges"
  /\ UNCHANGED <<caller, rc, layering, ordering, se, call>>

InitSE ==
  /\ \/ /\ \E n \in 1..LayeredNodes :
            \E matrix \in Layerings(1, n) :
              \E es \in LayeredEdgeSeqs(matrix, n) :
                \E widths \in WidthSeqs(n) :
                  /\ graphMatrix = matrix
                  /\ graph = LayeredGraph(widths, es)
        /\ given = graph
        /\ pc = "minimisedCrossings"
     \/ /\ \E es \in AscendingEdgeSeqs : given \in Structured(es)
        /\ graph = NewGraph(Undefined)
        /\ graphMatrix = << >>
        /\ pc = "layOutGraph"
  /\ inputGraph = given
  /\ \E nodeProperties \in NodePropertyChoices :
       se = [NoSe EXCEPT !.nodeProperties = nodeProperties]
  /\ call = NoCall
  /\ rc = NoRc
  /\ ranks = NewRankTable
  /\ tree = NewGraph(Undefined)
  /\ ln = NoLn
  /\ mc = NoMc

NextSE ==
  \/ LayOutGraphStart
  \/ RemoveCyclesStart
  \/ GreedyRemoveSink
  \/ GreedyRemoveSource
  \/ GreedyRemoveMaxNode
  \/ HandleEdgesStart
  \/ HandleEdge
  \/ RemoveCyclesReturn
  \/ LayerNodesStart
  \/ SetRanksPass
  \/ GetTightTree
  \/ FeasibleTreeGrow
  \/ SetCutValues
  \/ LayerNodesFinish
  \/ PreprocessDataStructures
  \/ MinimiseCrossingsReturn
  \/ PrepareBiasedGraphs
  \/ AlignAndCompact
  \/ AlignToMinWidthGraph
  \/ BalanceAndAssignValues

SpecSE == InitSE /\ [][NextSE]_vars

\* ------------------------------------------------------------------------
\* minimiseCrossings called on layered graphs whose label the caller has or
\* has not given a maxcrossingloops
\* ------------------------------------------------------------------------

SweepNodes == 6       \* nodes of a layered graph to order
SweepEdges == 5       \* edges of a layered graph to order
CrossingLoops == 3    \* the maxcrossingloops a caller sets
WideNodes == 8        \* nodes of a graph of three layers of two nodes or more
WideEdges == 8        \* edges of such a graph

\* The pairs of a node and a node of the next layer, in the order of the
\* matrix.
AdjacentPairs(matrix) ==
  FoldLeft(LAMBDA acc, i :
             FoldLeft(LAMBDA acc1, v :
                        acc1 \o SeqMap(LAMBDA w : <<v, w>>, matrix[i + 1]),
                      acc, matrix[i]),
           << >>, Indices(1, Len(matrix) - 1, TRUE))

\* At most SweepEdges of the pairs, in ascending order.
SweepEdgeSeqs(pairs) ==
  {SeqMap(LAMBDA k : pairs[k], q) : q \in MonotoneSeqs(1, Len(pairs), SweepEdges)}

\* The layerings of WideNodes nodes in three layers of two nodes or more.
WideLayerings ==
  {m \in Layerings(1, WideNodes) : Len(m) = 3 /\ \A i \in DOMAIN m : Len(m[i]) > 1}

\* WideEdges of the pairs, in ascending order, that give every node a
\* neighbour in each layer next to its own.
WideEdgeSeqs(matrix, pairs) ==
  {es \in {SeqMap(LAMBDA k : pairs[k], q) :
             q \in {r \in MonotoneSeqs(1, Len(pairs), WideEdges) : Len(r) = WideEdges}} :
     /\ \A i \in 2..Len(matrix) : \A k \in DOMAIN matrix[i] :
          \E j \in DOMAIN es : es[j][2] = matrix[i][k]
     /\ \A i \in 1..(Len(matrix) - 1) : \A k \in DOMAIN matrix[i] :
          \E j \in DOMAIN es : es[j][1] = matrix[i][k]}

\* The rank table layerNodes returns for a layering: the nodes of a layer
\* in the order in which they were ranked.
RanksOf(matrix) ==
  FoldLeft(LAMBDA t, i :
             FoldLeft(LAMBDA acc, n : RankTableSet(acc, n, Num(i - 1)), t, matrix[i]),
           NewRankTable, Indices(1, Len(matrix), TRUE))

\* The graph labels of the layout graph: the defaults, which name no
\* maxcrossingloops, and the defaults under a label of the caller that does.
SweepLabels == {GRAPH_DEFAULTS, Spread(GRAPH_DEFAULTS, [maxcrossingloops |-> CrossingLoops])}

InitMC ==
  /\ \/ \E n \in 1..SweepNodes :
          \E matrix \in Layerings(1, n) :
            \E pairs \in {AdjacentPairs(matrix)} :
              \E es \in SweepEdgeSeqs(pairs) :
                \E label \in SweepLabels :
                  \E table \in {RanksOf(matrix)} :
                    /\ ranks = table
                    /\ graph = setYCoordinates([LayeredGraph([i \in 1..n |-> 100], es)
                                                  EXCEPT !.label = label],
                                               table)
     \/ \E matrix \in WideLayerings :
          \E pairs \in {AdjacentPairs(matrix)} :
            \E es \in WideEdgeSeqs(matrix, pairs) :
              \E table \in {RanksOf(matrix)} :
                /\ ranks = table
                /\ graph = setYCoordinates(
                             [LayeredGraph([i \in 1..WideNodes |-> 100], es)
                                EXCEPT !.label = Spread(GRAPH_DEFAULTS,
                                                        [maxcrossingloops |-> CrossingLoops])],
                             table)
  /\ given = graph
  /\ inputGraph = given
  /\ pc = "layeredNodes"
  /\ graphMatrix = << >>
  /\ call = NoCall
  /\ rc = NoRc
  /\ tree = NewGraph(Undefined)
  /\ ln = NoLn
  /\ mc = NoMc
  /\ se = NoSe

NextMC ==
  \/ PreprocessDataStructures
  \/ SortLayersStart
  \/ SweepLayer
  \/ SortLayersReturn
  \/ MinimiseCrossingsReturn

SpecMC == InitMC /\ [][NextMC]_vars

\* ------------------------------------------------------------------------
\* Properties of cycle removal and edge restoration
\* ------------------------------------------------------------------------

\* The pairs (a, b) with a path of at least one edge from a to b.
RECURSIVE TransitiveClosure(_, _)
TransitiveClosure(R, E) ==
  LET next == R \cup {<<p[1][1], p[2][2]>> : p \in {q \in R \X E : q[1][2] = q[2][1]}}
  IN  IF next = R THEN R ELSE TransitiveClosure(next, E)

\* graphlib.alg.isAcyclic: no directed cycle, self-loops included.
isAcyclic(g) ==
  \A p \in TransitiveClosure(Range(g.edges), Range(g.edges)) : p[1] # p[2]

\* The graph as removeCycles received it.
GraphBeforeRemoveCycles == buildLayoutGraph(given)

\* The edges of a graph with their labels.
LabelledEdges(g) ==
  {[v |-> e[1], w |-> e[2], label |-> g.el[e]] : e \in Range(g.edges)}

\* C1: when removeCycles has returned, the working graph has no directed
\* cycle and no self-loop.
C1_AcyclicAfterRemoveCycles ==
  pc = "removedCycles" =>
    /\ isAcyclic(graph)
    /\ \A e \in Range(graph.edges) : e[1] # e[2]

\* C2: when restoreEdges has run on what removeCycles returned, the graph has
\* exactly the edges it had before removeCycles, with their labels (no phase
\* in between has added points), self-loops and both edges of an
\* antiparallel pair included.
C2_RestoredOriginalEdges ==
  pc = "restoredEdges" => LabelledEdges(graph) = LabelledEdges(GraphBeforeRemoveCycles)

\* C7: what removeCycles returns: deletedLoops holds exactly the self-loops
\* the graph had before the call, each once; reversedEdges holds only edges
\* the graph had before the call, which now run the other way; every entry
\* carries the original endpoints and the original label.
C7_ReturnsOriginalEdges ==
  pc = "removedCycles" =>
    /\ Range(rc.deletedLoops) = {e \in LabelledEdges(GraphBeforeRemoveCycles) : e.v = e.w}
    /\ Cardinality(Range(rc.deletedLoops)) = Len(rc.deletedLoops)
    /\ \A i \in DOMAIN rc.reversedEdges :
         LET e == rc.reversedEdges[i]
         IN  /\ e \in LabelledEdges(GraphBeforeRemoveCycles)
             /\ e.v # e.w
             /\ hasEdge(graph, e.w, e.v)
             /\ \A j \in DOMAIN rc.reversedEdges : j # i => rc.reversedEdges[j] # e

\* removeCycles has returned a deleted loop and a reversed edge.
C7_Witness ==
  /\ pc = "removedCycles"
  /\ Len(rc.deletedLoops) > 0
  /\ Len(rc.reversedEdges) > 0

\* ------------------------------------------------------------------------
\* Properties of the layering
\* ------------------------------------------------------------------------

\* a >= b on numbers: false as soon as one side is NaN.
AtLeast(a, b) == Less(b, a) \/ StrictEq(ToNumber(a), ToNumber(b))

\* Is the edge the one a warrant points to, or an edge of a warrant sink?
InvolvedInWarrant(g, e) ==
  \/ hasNode(g, WarrantSinkId(e[1], e[2]))
  \/ Flag(node(g, e[1]), "isWarrantSink")
  \/ Flag(node(g, e[2]), "isWarrantSink")

\* rank(w) - rank(v) of an edge (v, w)
Span(t, e) == Minus(getRank(t, e[2]), getRank(t, e[1]))

\* C3: when layerNodes has returned, every edge (v, w) of the working graph
\* that is not involved in a warrant has a minlen of at least 1 and spans at
\* least minlen ranks: rank(w) - rank(v) >= minlen(v, w) >= 1.
C3_EdgesSpanMinlen ==
  pc = "layeredNodes" =>
    \A e \in Range(graph.edges) :
      ~InvolvedInWarrant(graph, e) =>
        LET label == edge(graph, e[1], e[2])
        IN  /\ Has(label, "minlen")
            /\ label.minlen >= 1
            /\ AtLeast(Span(ranks, e), Num(label.minlen))

\* C10: when layerNodes has returned, the sink "u -> w" of a warrant on the
\* edge (u, w) lies half a rank below u and half a rank above w:
\* rank(sink) = rank(u) + 0.5 = rank(w) - 0.5, stated on the doubled ranks.
C10_WarrantSinkBetweenRanks ==
  pc = "layeredNodes" =>
    \A u \in Range(graph.nodes), w \in Range(graph.nodes) :
      hasNode(graph, WarrantSinkId(u, w)) /\ hasEdge(graph, u, w) =>
        LET sink == Times(getRank(ranks, WarrantSinkId(u, w)), 2)
        IN  /\ StrictEq(sink, Plus(Times(getRank(ranks, u), 2), Num(1)))
            /\ StrictEq(sink, Minus(Times(getRank(ranks, w), 2), Num(1)))

\* ------------------------------------------------------------------------
\* Properties of the whole call
\* ------------------------------------------------------------------------

\* C5: on a directed graph layOutGraph comes to an end: none of its loops
\* runs forever.  A loop runs forever from the iteration that changes nothing
\* while its condition holds (hang).
C5_Terminates == given.directed => pc # "hang"

\* C6: on a graph that is not directed layOutGraph throws at its guard and
\* has written nothing to the caller's graph: no node label, no edge label
\* and no graph label differs from what was passed.
C6_UndirectedThrowsUntouched ==
  ~given.directed =>
    /\ pc \in {"layOutGraph", "threw"}
    /\ inputGraph = given

\* layOutGraph has thrown on a graph that is not directed and has edges.
C6_Witness ==
  /\ pc = "threw"
  /\ ~given.directed
  /\ edgeCount(given) > 0

\* ------------------------------------------------------------------------
\* Properties of the long edges and of the routing
\* ------------------------------------------------------------------------

\* C8: when splitLongEdges has run (minimiseCrossings has prepared its data
\* structures), every edge (v, w) of the working graph spans exactly one
\* rank: rank(w) - rank(v) = 1.
C8_EdgesSpanOneRank ==
  pc = "crossingLoop" =>
    \A e \in Range(graph.edges) : StrictEq(Span(ranks, e), Num(1))

\* The centre of a node as drawBezierCurves reads it.
Centre(g, v) == [x |-> Get(node(g, v), "x"), y |-> Get(node(g, v), "y")]

\* C9: when drawBezierCurves and removeDummyNodes have run, the points of
\* every edge of the working graph that is not a loop are three, the first
\* the centre of the source node and the last the centre of the target node.
C9_PointsFromCentreToCentre ==
  pc = "removedDummyNodes" =>
    \A e \in Range(graph.edges) :
      e[1] # e[2] =>
        LET label == edge(graph, e[1], e[2])
        IN  /\ Has(label, "points")
            /\ Len(label.points) = 3
            /\ label.points[1] = Centre(graph, e[1])
            /\ label.points[3] = Centre(graph, e[2])

\* The routing has ended on a graph with an edge that was drawn as it is and
\* an edge that replaces a dummy node of the crossing minimisation.
C9_Witness ==
  /\ pc = "removedDummyNodes"
  /\ \E e \in Range(graph.edges) :
       /\ e[1] # e[2]
       /\ \E i \in 0..1 : DummyNodeId(e[1], e[2], i) \in DOMAIN ranks.nodeToRank
  /\ \E e \in Range(graph.edges) :
       /\ e[1] # e[2]
       /\ DummyNodeId(e[1], e[2], 0) \notin DOMAIN ranks.nodeToRank

\* ------------------------------------------------------------------------
\* Properties of the coordinate assignment that reads the widths
\* ------------------------------------------------------------------------

\* C4: after coordinate assignment, every node v with the node u
\* immediately to its left in its layer has
\* x(v) - x(u) >= nodesep + (width(u) + width(v)) / 2.
C4_NeighboursKeepApart ==
  pc = "straightenedEdges" =>
    \A i \in DOMAIN graphMatrix : \A j \in 1..(Len(graphMatrix[i]) - 1) :
      LET u == graphMatrix[i][j]
          v == graphMatrix[i][j + 1]
      IN  AtLeast(Minus(Get(node(graph, v), "x"), Get(node(graph, u), "x")),
                  Plus(CoordField(graph.label, "nodesep"),
                       Half(Plus(CoordField(node(graph, u), "width"),
                                 CoordField(node(graph, v), "width")))))

\* ------------------------------------------------------------------------
\* Properties of the layering of conjunct nodes
\* ------------------------------------------------------------------------

\* The nodes layerNodes has ended with that are children of a conjunct node.
ConjunctChildren ==
  {c \in Range(graph.nodes) : Flag(node(graph, parent(graph, c)), "isConjunctNode")}

\* C11: after layering, every child of a conjunct node has the rank of
\* the conjunct node, so that all children of it share one rank.
C11_ChildrenHaveContainerRank ==
  pc = "layeredNodes" =>
    \A c \in ConjunctChildren :
      /\ ~IsUndefined(getRank(ranks, c))
      /\ getRank(ranks, c) = getRank(ranks, parent(graph, c))

\* layerNodes has ended on a graph with a conjunct node of two children.
C11_Witness ==
  /\ pc = "layeredNodes"
  /\ \E c, d \in ConjunctChildren : c # d /\ parent(graph, c) = parent(graph, d)

\* ------------------------------------------------------------------------
\* Properties of the layout of conjunct nodes
\* ------------------------------------------------------------------------

\* The conjunct nodes the caller's graph has, each with a child at least.
ConjunctNodesGiven ==
  {n \in Range(given.nodes) :
     Flag(node(given, n), "isConjunctNode") /\ Len(children(given, n)) > 0}

\* The children of a conjunct node stand side by side in one layer.
StandTogether(conj) ==
  \E i \in DOMAIN graphMatrix :
    LET layer == graphMatrix[i]
        at == {j \in DOMAIN layer : InSeq(children(given, conj), layer[j])}
    IN  /\ \A c \in Range(children(given, conj)) : InSeq(layer, c)
        /\ \A j, k \in at : \A m \in j..k : m \in at

\* The x of every child of a conjunct node is within the left and the
\* right x of the conjunct node.
LieWithin(conj) ==
  LET label == node(graph, conj)
      x == Get(label, "x")
      halfWidth == Half(CoordField(label, "width"))
  IN  \A c \in Range(children(given, conj)) :
        /\ AtLeast(Get(node(graph, c), "x"), Minus(x, halfWidth))
        /\ AtLeast(Plus(x, halfWidth), Get(node(graph, c), "x"))

\* C12: when the coordinate assignment has ended on the layers of a graph
\* with conjunct nodes, it has left a layout, and in it the children of
\* each conjunct node stand side by side in their layer, no other node of
\* the layer between two of them, each with its x between the left and the
\* right x of the conjunct node.
C12_ChildrenInContainerBlock ==
  (graphMatrix # << >> /\ pc \in {"straightenedEdges", "crash"}) =>
    \A conj \in ConjunctNodesGiven :
      /\ pc = "straightenedEdges"
      /\ StandTogether(conj)
      /\ LieWithin(conj)

\* ------------------------------------------------------------------------
\* Properties of what layOutGraph does to the caller's graph
\* ------------------------------------------------------------------------

\* C13: every node of the caller's graph has, when layOutGraph has
\* returned, the width and the height it had when layOutGraph was called.
C13_SizesPreserved ==
  pc = "done" =>
    \A n \in Range(given.nodes) :
      /\ Get(node(inputGraph, n), "width") = Get(node(given, n), "width")
      /\ Get(node(inputGraph, n), "height") = Get(node(given, n), "height")

\* C14: while layOutGraph runs, the caller's graph changes in one step only,
\* the last one, which is updateInputGraph: no phase before it writes to the
\* caller's graph, and nothing writes to it afterwards.
C14_WrittenOnceAtTheEnd ==
  [][inputGraph' # inputGraph =>
       /\ pc = "removedDummyNodes"
       /\ pc' \in {"done", "crash"}]_vars

C14_Witness ==
  /\ pc = "done"
  /\ inputGraph # given

\* ------------------------------------------------------------------------
\* RankTable on its own: any sequence of set and delete
\* ------------------------------------------------------------------------

RankNodes == 3
MaxRank == 2

\* table.set(node, rank)
RankTableSetCall ==
  /\ pc \in {"rankTable", "rankTable.set", "rankTable.delete"}
  /\ \E n \in 1..RankNodes : \E rank \in 0..MaxRank :
       ranks' = RankTableSet(ranks, Name(n), Num(rank))
  /\ pc' = "rankTable.set"
  /\ UNCHANGED <<caller, graph, rc, tree, ln, ordering, se, call>>

\* table.delete(node)
RankTableDeleteCall ==
  /\ pc \in {"rankTable", "rankTable.set", "rankTable.delete"}
  /\ \E n \in 1..RankNodes : ranks' = RankTableDelete(ranks, Name(n))
  /\ pc' = "rankTable.delete"
  /\ UNCHANGED <<caller, graph, rc, tree, ln, ordering, se, call>>

InitRT ==
  /\ given = NewGraph(Undefined)
  /\ inputGraph = given
  /\ graph = NewGraph(Undefined)
  /\ rc = NoRc
  /\ ranks = NewRankTable
  /\ tree = NewGraph(Undefined)
  /\ ln = NoLn
  /\ mc = NoMc
  /\ graphMatrix = << >>
  /\ se = NoSe
  /\ call = NoCall
  /\ pc = "rankTable"

NextRT ==
  \/ RankTableSetCall
  \/ RankTableDeleteCall

SpecRT == InitRT /\ [][NextRT]_vars

\* The ranks whose set holds the node.
RanksHolding(n) == {r \in DOMAIN ranks.rankToNodes : InSeq(ranks.rankToNodes[r], n)}

\* C15: after any sequence of set and delete, every node with a rank is in
\* exactly one rank set, the set of the rank getRank gives for it; a rank
\* set holds a node once and only nodes with a rank; no rank set is empty.
C15_RankTableConsistent ==
  pc \in {"rankTable", "rankTable.set", "rankTable.delete"} =>
    /\ \A n \in DOMAIN ranks.nodeToRank : RanksHolding(n) = {ranks.nodeToRank[n]}
    /\ \A r \in DOMAIN ranks.rankToNodes :
         LET rankSet == ranks.rankToNodes[r]
         IN  /\ Len(rankSet) > 0
             /\ \A i, j \in DOMAIN rankSet : rankSet[i] = rankSet[j] => i = j
             /\ \A i \in DOMAIN rankSet : rankSet[i] \in DOMAIN ranks.nodeToRank

\* A table in which a rank above 0 holds two nodes, another node has lost
\* its rank, and rank 0 has no set.
C15_Witness ==
  /\ pc = "rankTable.delete"
  /\ Num(0) \notin DOMAIN ranks.rankToNodes
  /\ \E r \in DOMAIN ranks.rankToNodes : Len(ranks.rankToNodes[r]) = 2
  /\ \E n \in 1..RankNodes : Name(n) \notin DOMAIN ranks.nodeToRank

\* ------------------------------------------------------------------------
\* The Graph of src/src/graph.ts on its own: the caller builds a graph of
\* plain nodes and edges and calls setConjunctNode, setWarrantEdge and
\* removeEdge on it. given is the graph as it was before the last call.
\* ------------------------------------------------------------------------

GraphNodes == 3     \* the caller's node names 1..GraphNodes
GraphEdges == 2     \* edges of the graph the calls start from
MaxCalls == 2       \* calls of the three methods

GraphNames == {Name(n) : n \in 1..GraphNodes}

\* The edges a caller names: from one of its nodes to another.
GraphPairs == {e \in GraphNames \X GraphNames : e[1] # e[2]}

GraphPairAt(k) == <<Name((k \div GraphNodes) + 1), Name((k % GraphNodes) + 1)>>

GraphEdgeSeqs ==
  {es \in {SeqMap(GraphPairAt, q) : q \in MonotoneSeqs(0, GraphNodes * GraphNodes - 1, GraphEdges)} :
     \A i \in DOMAIN es : es[i] \in GraphPairs}

\* The labels a caller gives to a warrant edge.
WarrantLabels == {[text |-> 8], [text |-> 9]}

Called(method, args) == [method |-> method, args |-> args, count |-> call.count + 1]

\* graph.setConjunctNode(node, { v, w })
SetConjunctNodeCall ==
  /\ pc = "graph"
  /\ call.count < MaxCalls
  /\ \E n \in GraphNames : \E e \in GraphPairs :
       /\ graph' = setConjunctNode(graph, n, e[1], e[2])
       /\ call' = Called("setConjunctNode", [node |-> n, v |-> e[1], w |-> e[2]])
  /\ given' = graph
  /\ pc' = IF graph'.err THEN "crash" ELSE "graph"
  /\ UNCHANGED <<inputGraph, rc, layering, ordering, se>>

\* graph.setWarrantEdge(sourceNode, { v, w }, label)
SetWarrantEdgeCall ==
  /\ pc = "graph"
  /\ call.count < MaxCalls
  /\ \E sourceNode \in GraphNames : \E e \in GraphPairs : \E label \in WarrantLabels :
       /\ graph' = setWarrantEdge(graph, sourceNode, e[1], e[2], label)
       /\ call' = Called("setWarrantEdge",
                         [sourceNode |-> sourceNode, v |-> e[1], w |-> e[2], label |-> label])
  /\ given' = graph
  /\ pc' = IF graph'.err THEN "crash" ELSE "graph"
  /\ UNCHANGED <<inputGraph, rc, layering, ordering, se>>

\* graph.removeEdge(v, w) of an edge of the graph
RemoveEdgeCall ==
  /\ pc = "graph"
  /\ call.count < MaxCalls
  /\ \E e \in Range(graph.edges) :
       /\ graph' = removeEdge(graph, e[1], e[2])
       /\ call' = Called("removeEdge", [v |-> e[1], w |-> e[2]])
  /\ given' = graph
  /\ pc' = IF graph'.err THEN "crash" ELSE "graph"
  /\ UNCHANGED <<inputGraph, rc, layering, ordering, se>>

InitGA ==
  /\ \E es \in GraphEdgeSeqs : graph = PlainGraphOf(GraphNodes, es, TRUE)
  /\ given = graph
  /\ inputGraph = graph
  /\ call = NoCall
  /\ rc = NoRc
  /\ ranks = NewRankTable
  /\ tree = NewGraph(Undefined)
  /\ ln = NoLn
  /\ mc = NoMc
  /\ graphMatrix = << >>
  /\ se = NoSe
  /\ pc = "graph"

NextGA ==
  \/ SetConjunctNodeCall
  \/ SetWarrantEdgeCall
  \/ RemoveEdgeCall

SpecGA == InitGA /\ [][NextGA]_vars

\* C16: removeEdge leaves in the graph a conjunct node that is the source
\* of the removed edge and still has children; it removes the conjunct
\* node only when no child is left in it.
C16_ContainerWithChildrenStays ==
  (call.method = "removeEdge"
     /\ Flag(node(given, call.args.v), "isConjunctNode")
     /\ Len(children(given, call.args.v)) > 0)
    => hasNode(graph, call.args.v)

ParentsOf(x) == {p \in Range(graph.nodes) : InSeq(children(graph, p), x)}

C19_WarrantEdgeSet ==
  call.method = "setWarrantEdge" =>
    LET sink == WarrantSinkId(call.args.v, call.args.w)
    IN  /\ pc = "graph"
        /\ hasNode(graph, sink)
        /\ Flag(node(graph, sink), "isWarrantSink")
        /\ Get(node(graph, sink), "width") = 0
        /\ Get(node(graph, sink), "height") = 0
        /\ hasEdge(graph, call.args.sourceNode, sink)
        /\ edge(graph, call.args.sourceNode, sink) = call.args.label

\* ------------------------------------------------------------------------
\* removeCycles on trees
\* ------------------------------------------------------------------------

BothWays(E) == E \cup {<<e[2], e[1]>> : e \in E}

\* An acyclic graph that is a tree: one edge less than nodes, and every
\* node joined to every other when the directions are left aside.
IsTree(g) ==
  LET E == Range(g.edges)
      N == Range(g.nodes)
  IN  /\ isAcyclic(g)
      /\ Cardinality(E) = Cardinality(N) - 1
      /\ \A a, b \in N : a # b => <<a, b>> \in TransitiveClosure(BothWays(E), BothWays(E))

\* C20: removeCycles of a graph that is acyclic and a tree returns without
\* an exception, reverses no edge and deletes none: reversedEdges is empty
\* and the graph has the edges it had, each with its direction and label.
C20_TreeKeepsItsEdges ==
  (pc \in {"removedCycles", "crash"} /\ IsTree(GraphBeforeRemoveCycles)) =>
    /\ pc = "removedCycles"
    /\ rc.reversedEdges = << >>
    /\ rc.deletedLoops = << >>
    /\ LabelledEdges(graph) = LabelledEdges(GraphBeforeRemoveCycles)

\* removeCycles has returned from a tree in which one edge follows another.
C20_Witness ==
  /\ pc = "removedCycles"
  /\ IsTree(GraphBeforeRemoveCycles)
  /\ \E e, f \in Range(given.edges) : e[2] = f[1]

\* ------------------------------------------------------------------------
\* Properties of the y coordinates
\* ------------------------------------------------------------------------

\* C22: when layerNodes has returned, every node has y = rank * ranksep,
\* ranksep being the rank separation of the graph label.
C22_YIsRankTimesRanksep ==
  pc = "layeredNodes" =>
    \A n \in Range(graph.nodes) :
      /\ Has(graph.label, "ranksep")
      /\ StrictEq(Get(node(graph, n), "y"),
                  Times(getRank(ranks, n), 8 * graph.label.ranksep))

\* ------------------------------------------------------------------------
\* Properties of the order of the phases
\* ------------------------------------------------------------------------

\* C23: the deleted loops and the reversed edges are restored after the
\* edges have been routed, never before: whenever restoreEdges has an edge
\* to restore, every edge of the graph has its points.
C23_RestoredAfterRouting ==
  (pc = "restoreEdges" /\ (Len(rc.restoreLoops) > 0 \/ Len(rc.restoreReversed) > 0)) =>
    \A e \in Range(graph.edges) : Has(edge(graph, e[1], e[2]), "points")

\* ------------------------------------------------------------------------
\* Properties of the layout of the empty graph
\* ------------------------------------------------------------------------

\* C24: on a graph without nodes and edges every phase of layOutGraph runs
\* to its end, layOutGraph returns without an exception, and the caller's
\* graph is still without nodes and edges.
C24_EmptyGraphLaidOut ==
  (Len(given.nodes) = 0 /\ Len(given.edges) = 0) =>
    /\ pc \notin {"crash", "hang", "threw"}
    /\ Len(inputGraph.nodes) = 0
    /\ Len(inputGraph.edges) = 0

C24_Witness ==
  /\ Len(given.nodes) = 0
  /\ Len(given.edges) = 0
  /\ pc = "done"

\* The position of a node in sigma = S0 ++ reverse(S1), S0 and S1 being the
\* lists nodes0 and nodes1 of greedilyGetFS.
Sigma(n) == IndexOf(rc.nodes0 \o Reverse(rc.nodes1), n)

\* removeCycles has recorded the edge from v to w as reversed.
IsReversed(v, w) == \E i \in DOMAIN rc.reversedEdges :
                      rc.reversedEdges[i].v = v /\ rc.reversedEdges[i].w = w

\* C25: when removeCycles has returned, every edge of the original graph that
\* is not a loop and runs backwards in sigma = S0 ++ reverse(S1) has been
\* reversed, and no edge that runs forwards in sigma has been reversed.  The
\* edges meant are those between nodes that sigma orders: the sink of a
\* warrant leaves the copy with its edge and is in neither list.
C25_ReversedAreTheBackwardEdges ==
  pc = "removedCycles" =>
    \A e \in Range(GraphBeforeRemoveCycles.edges) :
      (e[1] # e[2] /\ Sigma(e[1]) > 0 /\ Sigma(e[2]) > 0) =>
        /\ Sigma(e[1]) > Sigma(e[2]) => IsReversed(e[1], e[2])
        /\ Sigma(e[1]) < Sigma(e[2]) => ~IsReversed(e[1], e[2])

\* setRanks has returned: layerNodes stands between setRanks and
\* getTightTree with no node left to rank.
SetRanksReturned == pc = "setRanks" /\ Len(ln.nodes) = 0

\* setRanks has not returned: it threw, or a run of its for loop ranked no
\* node, with nodes left to rank.  (A throw of mergeConjunctNodes or of
\* mergeRelevanceStructures, which come before setRanks, leaves the graph
\* marked or a node label undefined.)
SetRanksStopped ==
  /\ Len(ln.nodes) > 0
  /\ \/ pc = "hang"
     \/ pc = "crash" /\ ~graph.err /\ ~SomeLabelUndefined(graph)

\* max over the in-edges (u, v) of rank(u) + minlen(u, v)
LongestPathRank(n) ==
  MathMax(SeqMap(LAMBDA e : Plus(getRank(ranks, e[1]),
                                 NumField(edge(graph, e[1], e[2]), "minlen")),
                 inEdges(graph, n)))

\* C27: when setRanks has returned, every node without in-edges has rank 0
\* and every other node has the largest rank(u) + minlen(u, v) over its
\* in-edges (u, v); and setRanks does not stop ranking on an acyclic graph.
C27_LongestPathRanking ==
  /\ SetRanksReturned =>
       \A n \in Range(graph.nodes) :
         IF Len(inEdges(graph, n)) = 0 THEN getRank(ranks, n) = Num(0)
         ELSE /\ getRank(ranks, n) # Undefined
              /\ StrictEq(getRank(ranks, n), LongestPathRank(n))
  /\ SetRanksStopped => ~isAcyclic(graph)

\* setRanks has returned on a graph with a node whose in-edges come from
\* parents of different ranks.
C27_Witness ==
  /\ SetRanksReturned
  /\ \E n \in Range(graph.nodes) :
       \E e1, e2 \in Range(inEdges(graph, n)) :
         getRank(ranks, e1[1]) # getRank(ranks, e2[1])

\* ------------------------------------------------------------------------
\* Properties of the blocks of vertical alignment
\* ------------------------------------------------------------------------

\* The biased graphs vertical alignment has been through.
AlignedGraphs ==
  {se.biasedGraphs[i] : i \in 1..se.graphIndex} \cap {g \in Range(se.biasedGraphs) : ~g.err}

\* The nodes met from n by following nextBlockNode at most k times, n
\* included.
RECURSIVE FollowBlock(_, _, _)
FollowBlock(g, n, k) ==
  IF k = 0 \/ ~Has(node(g, n), "nextBlockNode") THEN {n}
  ELSE {n} \cup FollowBlock(g, node(g, n).nextBlockNode, k - 1)

\* C29: after vertical alignment every node has a block root and a next
\* block node; following nextBlockNode from a node meets only nodes of its
\* block root, meets the block root and comes back to the node; and no two
\* nodes of one block root stand in one layer.
C29_BlocksAreCycles ==
  \A g \in AlignedGraphs :
    \A n \in Range(g.nodes) :
      /\ Has(node(g, n), "blockRoot")
      /\ Has(node(g, n), "nextBlockNode")
      /\ \A m \in FollowBlock(g, n, nodeCount(g)) :
           Get(node(g, m), "blockRoot") = node(g, n).blockRoot
      /\ node(g, n).blockRoot \in FollowBlock(g, n, nodeCount(g))
      /\ n \in FollowBlock(g, node(g, n).nextBlockNode, nodeCount(g))
      /\ \A m \in Range(g.nodes) :
           (m # n /\ Get(node(g, m), "blockRoot") = node(g, n).blockRoot) =>
             LayerIndexOf(graphMatrix, m) # LayerIndexOf(graphMatrix, n)

\* ------------------------------------------------------------------------
\* Properties of the removal of the dummy nodes of long edges
\* ------------------------------------------------------------------------

\* The number of dummy nodes splitLongEdges has put on the edge from v to w.
RECURSIVE ChainLength(_, _, _, _)
ChainLength(g, v, w, i) ==
  IF hasNode(g, DummyNodeId(v, w, i)) THEN ChainLength(g, v, w, i + 1) ELSE i

\* The long edges of a graph: the pairs of nodes with a chain of dummy nodes
\* from the one to the other.
LongEdges(g) ==
  {e \in Range(g.nodes) \X Range(g.nodes) : ChainLength(g, e[1], e[2], 0) > 0}

\* The sub-edge that enters the chain, which is the first one, and the one
\* that leaves it.
EnteringSubEdge(g, v, w) == edge(g, v, DummyNodeId(v, w, 0))
LeavingSubEdge(g, v, w) == edge(g, DummyNodeId(v, w, ChainLength(g, v, w, 0) - 1), w)

\* The step of removeDummyNodes with a long edge in the graph.
RemovesChain ==
  /\ pc = "drewBezierCurves"
  /\ pc' = "removedDummyNodes"
  /\ LongEdges(graph) # {}

\* C30: removeDummyNodes leaves for every long edge one edge from its
\* source to its target, with three points: the first point of the entering
\* sub-edge, the middle point of the first sub-edge and the last point of
\* the leaving sub-edge; and it leaves no node flagged isDummyNode.
C30_ChainCollapsed ==
  [][RemovesChain =>
       /\ \A e \in LongEdges(graph) :
            /\ hasEdge(graph', e[1], e[2])
            /\ Get(edge(graph', e[1], e[2]), "points") =
                 <<EnteringSubEdge(graph, e[1], e[2]).points[1],
                   EnteringSubEdge(graph, e[1], e[2]).points[2],
                   LeavingSubEdge(graph, e[1], e[2]).points[3]>>
       /\ FilterNodes(graph', "isDummyNode") = << >>]_vars

\* C30 with the middle point that removeDummyNodes takes: removeDummyNodes
\* leaves for every long edge one edge from its source to its target, with
\* three points: the first point of the entering sub-edge, the first point of
\* the leaving sub-edge (the centre of the last dummy node of the chain) and
\* the last point of the leaving sub-edge; and it leaves no node flagged
\* isDummyNode.
C30_ChainCollapsedThroughDummy ==
  [][RemovesChain =>
       /\ \A e \in LongEdges(graph) :
            /\ hasEdge(graph', e[1], e[2])
            /\ Get(edge(graph', e[1], e[2]), "points") =
                 <<EnteringSubEdge(graph, e[1], e[2]).points[1],
                   LeavingSubEdge(graph, e[1], e[2]).points[1],
                   LeavingSubEdge(graph, e[1], e[2]).points[3]>>
       /\ FilterNodes(graph', "isDummyNode") = << >>]_vars

\* removeDummyNodes has removed a chain of two dummy nodes: the edge from the
\* first node of the path to its last is back and its dummy nodes, which are
\* still in the rank table, are gone.
C30_Witness ==
  /\ pc = "removedDummyNodes"
  /\ \E e \in Range(graph.edges) :
       /\ DummyNodeId(e[1], e[2], 1) \in DOMAIN ranks.nodeToRank
       /\ ~hasNode(graph, DummyNodeId(e[1], e[2], 1))
       /\ Has(edge(graph, e[1], e[2]), "points")

\* C21: for a layered graph that is a tree, the order matrix
\* minimiseCrossings returns has a total crossing count of zero.
C21_TreesEndWithoutCrossings ==
  (pc = "minimisedCrossings" /\ IsTree(graph)) =>
    countTotalCrossings(graph, graphMatrix) = 0

\* The crossings between the two layers the sweep after mc.sweep calls is
\* given, counted in a matrix.
SweptCrossings(matrix) ==
  countCrossings(graph, matrix[SweepNorthIndex(mc.sweep)],
                 matrix[SweepNorthIndex(mc.sweep) + 1])

\* C28: a layer sweep puts the newly computed order in the place of the
\* current order of a layer only if the new order has strictly fewer
\* crossings with the fixed layer than the old one; and the matrix
\* minimiseCrossings returns has no more crossings in total than the
\* initial order, the order of the rank table.
C28_SweepsNeverWorsen ==
  [][/\ (pc = "sortLayers" /\ graphMatrix' # graphMatrix) =>
          SweptCrossings(graphMatrix') < SweptCrossings(graphMatrix)
     /\ (pc # "minimisedCrossings" /\ pc' = "minimisedCrossings") =>
          countTotalCrossings(graph', graphMatrix')
            <= countTotalCrossings(graph', readRankTable(ranks'))]_vars

\* ------------------------------------------------------------------------
\* layerNodes called on acyclic layout graphs whose label the caller has
\* given a maxrankingloops
\* ------------------------------------------------------------------------

SimplexNodes == 6     \* nodes of a graph to rank
SimplexEdges == 6     \* edges of a graph to rank
SimplexRoot == 4      \* the node a caller may have added before the others
RankingLoops == 2     \* the maxrankingloops a caller sets

\* The pairs of a node and a node of a greater name.
SimplexPairs ==
  SelectSeq([k \in 1..(SimplexNodes * SimplexNodes) |->
               <<Name(((k - 1) \div SimplexNodes) + 1), Name(((k - 1) % SimplexNodes) + 1)>>],
            LAMBDA e : e[1][1] < e[2][1])

\* At most SimplexEdges of the pairs, in ascending order.
SimplexEdgeSeqs(pairs) ==
  {SeqMap(LAMBDA k : pairs[k], q) : q \in MonotoneSeqs(1, Len(pairs), SimplexEdges)}

\* The orders in which a caller may have added the nodes: by their names,
\* or SimplexRoot before the others.
SimplexNodeOrders ==
  {[i \in 1..SimplexNodes |-> i],
   <<SimplexRoot>> \o SelectSeq([i \in 1..SimplexNodes |-> i], LAMBDA i : i # SimplexRoot)}

\* The caller's graph of the nodes in an order and of the edges es, its
\* label naming a maxrankingloops.
SimplexGraph(order, es) ==
  LET g0 == [NewGraph(Undefined) EXCEPT !.label = [maxrankingloops |-> RankingLoops]]
      g1 == FoldLeft(LAMBDA acc, n : setNode(acc, Name(n), [width |-> 300, height |-> 100]),
                     g0, order)
  IN  FoldLeft(LAMBDA acc, i : setEdge(acc, es[i][1], es[i][2], [text |-> i]),
               g1, [i \in 1..Len(es) |-> i])

InitNS ==
  /\ \E pairs \in {SimplexPairs} :
       \E es \in SimplexEdgeSeqs(pairs) :
         \E order \in SimplexNodeOrders :
           given = SimplexGraph(order, es)
  /\ inputGraph = given
  /\ graph = buildLayoutGraph(inputGraph)
  /\ rc = NoRc
  /\ ranks = NewRankTable
  /\ tree = NewGraph(Undefined)
  /\ ln = NoLn
  /\ mc = NoMc
  /\ graphMatrix = << >>
  /\ se = NoSe
  /\ call = NoCall
  /\ pc = "removedCycles"

NextNS ==
  \/ LayerNodesStart
  \/ SetRanksPass
  \/ GetTightTree
  \/ FeasibleTreeGrow
  \/ SetCutValues
  \/ RankingExchange
  \/ LayerNodesFinish

SpecNS == InitNS /\ [][NextNS]_vars

\* Does every edge of the graph span at least its minlen in the ranks?
Feasible(g, t) ==
  \A e \in Range(g.edges) :
    AtLeast(Span(t, e), NumField(edge(g, e[1], e[2]), "minlen"))

\* C26: an exchange of the network simplex puts a non-tree edge with
\* exactly one end in the tail component in the place of the tree edge of
\* negative cut value, so that after the exchanges the while loop of
\* layerNodes has made the tree is a spanning tree of the graph and the
\* ranks are feasible.
C26_ExchangeKeepsSpanningTree ==
  (pc = "rankingLoop" /\ ln.loopCount > 0) =>
    /\ IsTree(tree)
    /\ Range(tree.nodes) = Range(graph.nodes)
    /\ Feasible(graph, ranks)

====
